---- MODULE Spec2Model ----
(***************************************************************************)
(* MODUS Forge: the hook bus (lib/hooks/lifecycle.js), the cache manager   *)
(* (lib/cache/manager.js), the API server's rate limiter and bearer auth   *)
(* (lib/api/client.js), the SSE channel (lib/sse/server.js), watch mode    *)
(* (lib/pipeline/watch.js), the provider router, the iteration strategies  *)
(* (lib/iterate), the plugin registry (lib/plugins/registry.js), the       *)
(* generation history (lib/persistence), the workspace migrations, the     *)
(* generation pipeline and the security scan.                              *)
(* Each subsystem has its own specification over its own variables.        *)
(***************************************************************************)
EXTENDS Integers, Sequences, FiniteSets, TLC

VARIABLES
    hooks,      \* lifecycle.js `hooks`: Map hookName -> Array<{name, fn, priority}>
    regCount,   \* number of handlers registered so far (gives each its registration number)
    lastRun,    \* observation of the most recent run(hookName, state); NoRun if none
    store,      \* CacheManager.store: Map key -> {value, expires, created}, in insertion order
    cacheNow,   \* Date.now() as the cache sees it
    useOrder,   \* the keys of store, least recently used (set or successful get) first
    written,    \* for each key, the value of the last set(key, ...); "none" before it
    lastCache,  \* observation of the most recent cache call
    clients,    \* SSE channel `clients`: Set of responses, in insertion order
    conn,       \* each connection's response: open/destroyed, status, what was written to it
    heartbeat,  \* whether the channel's heartbeat interval is set
    sent,       \* the payloads of the send/broadcast calls made so far, in call order
    beats,      \* number of heartbeat ticks so far
    lastConn,   \* observation of a channel.handler(req, res) call, until the next channel operation
    lastSend,   \* observation of a channel.send call, until the next channel operation
    listening,  \* whether createApiServer has been called and the server listens
    token,      \* createApiServer's opts.token; "" when no token is configured
    rateMax,    \* createApiServer's opts.rateLimit, the limiter's maxRequests
    windows,    \* RateLimiter.windows: Map ip -> timestamps of the granted checks in the window
    apiNow,     \* Date.now() as the API server sees it
    requestCount, \* createApiServer's requestCount
    inflight,   \* the POST /api/generate requests that await generateFn
    grants,     \* per ip, the times of every granted check so far, in order
    lastResp,   \* the most recent request handled and the answer to it
    watching,   \* watchMode: "off" before the call, then "file" or "dir"
    generating, \* watchMode's generating flag
    iteration,  \* watchMode's iteration counter
    timer,      \* the debounce timer: the pending call of regenerate, if any
    running,    \* the number of generate calls of watch mode that have not settled
    watchLog,   \* the types of the events broadcast on the watch channel, in order
    lastRegen,  \* observation of a call of regenerate, until the next watch operation
    routeCalls, \* the generators that route has invoked so far, in order
    lastRoute,  \* observation of the latest call of route
    job,        \* the iteration strategy that is running and its local variables; Idle if none
    done,       \* what the most recent strategy returned or threw; NotDone while one runs
    llmInFlight, \* the number of route calls of the running strategy that have not settled
    registry,   \* the plugin registry: Map name -> {meta, module, enabled}, in insertion order
    owner,      \* for each handler registration of the hook bus (by seq), who made it
    pending,    \* the plugin init()/destroy() call that is awaited, NoCall if none
    lastPlugin, \* observation of the latest plugin registry operation
    disk,       \* the store's collection files: collection -> (key -> stored JSON value)
    recordLog,  \* every history.record call so far: the id it returned and its entry
    retained,   \* the record calls (positions of recordLog) whose id was not removed since
    lastHistory, \* observation of the latest history operation
    workspace,  \* the workspace directory: config.json, spells/, grimoire/, history/ and the migration log
    upgradeLog, \* the upgrade calls made so far: dry run or not, and the ok they returned
    lastUpgrade, \* observation of the latest upgrade call
    pipe,           \* the pipeline run in progress: its stage, prompt, options
    stages,         \* the stages the run has reached, in order
    persisted,      \* the entries the persist step has written
    lastPipeline,   \* what the last pipeline run returned
    limiter,        \* a rate limiter of its own: maxRequests, windows, number of checks
    limNow,         \* its clock, in milliseconds
    denial,         \* per ip: the 429 it was answered last, until its next request
    lastCheck,      \* observation of the last check
    lastScan        \* the last call of scan: its text and its result

hookVars == <<hooks, regCount, lastRun>>

cacheVars == <<store, cacheNow, useOrder, written, lastCache>>

sseVars == <<clients, conn, heartbeat, sent, beats, lastConn, lastSend>>

apiVars == <<listening, token, rateMax, windows, apiNow, requestCount, inflight, grants, lastResp>>

\* What the operations of one subsystem leave alone: the other subsystems.
watchVars == <<watching, generating, iteration, timer, running, watchLog, lastRegen>>

routerVars == <<routeCalls, lastRoute>>

iterVars == <<job, done, llmInFlight>>

pluginVars == <<registry, owner, pending, lastPlugin>>

historyVars == <<disk, recordLog, retained, lastHistory>>

migrationVars == <<workspace, upgradeLog, lastUpgrade>>

pipelineVars == <<pipe, stages, persisted, lastPipeline>>

limiterVars == <<limiter, limNow, denial, lastCheck>>

scanVars == <<lastScan>>

notHook == <<cacheVars, sseVars, apiVars, watchVars, routerVars, iterVars, pluginVars, historyVars, migrationVars, pipelineVars, limiterVars, scanVars>>
notCache == <<hookVars, sseVars, apiVars, watchVars, routerVars, iterVars, pluginVars, historyVars, migrationVars, pipelineVars, limiterVars, scanVars>>
notSse == <<hookVars, cacheVars, apiVars, watchVars, routerVars, iterVars, pluginVars, historyVars, migrationVars, pipelineVars, limiterVars, scanVars>>
notApi == <<hookVars, cacheVars, watchVars, routerVars, iterVars, pluginVars, historyVars, migrationVars, pipelineVars, limiterVars, scanVars>>
notWatch == <<hookVars, cacheVars, sseVars, apiVars, routerVars, iterVars, pluginVars, historyVars, migrationVars, pipelineVars, limiterVars, scanVars>>
notRouter == <<hookVars, cacheVars, sseVars, apiVars, watchVars, iterVars, pluginVars, historyVars, migrationVars, pipelineVars, limiterVars, scanVars>>
notIter == <<hookVars, cacheVars, sseVars, apiVars, watchVars, routerVars, pluginVars, historyVars, migrationVars, pipelineVars, limiterVars, scanVars>>
\* The plugin registry registers into the hook bus: its operations leave lastRun alone.
notPlugin == <<lastRun, cacheVars, sseVars, apiVars, watchVars, routerVars, iterVars, historyVars, migrationVars, pipelineVars, limiterVars, scanVars>>
notHistory == <<hookVars, cacheVars, sseVars, apiVars, watchVars, routerVars, iterVars, pluginVars, migrationVars, pipelineVars, limiterVars, scanVars>>
notMigration == <<hookVars, cacheVars, sseVars, apiVars, watchVars, routerVars, iterVars, pluginVars, historyVars, pipelineVars, limiterVars, scanVars>>
notPipeline == <<hookVars, cacheVars, sseVars, apiVars, watchVars, routerVars, iterVars, pluginVars, historyVars, migrationVars, limiterVars, scanVars>>
notLimiter == <<hookVars, cacheVars, sseVars, apiVars, watchVars, routerVars, iterVars, pluginVars, historyVars, migrationVars, pipelineVars, scanVars>>
notScan == <<hookVars, cacheVars, sseVars, apiVars, watchVars, routerVars, iterVars, pluginVars, historyVars, migrationVars, pipelineVars, limiterVars>>

vars == <<hooks, regCount, lastRun, store, cacheNow, useOrder, written, lastCache,
          clients, conn, heartbeat, sent, beats, lastConn, lastSend,
          listening, token, rateMax, windows, apiNow, requestCount, inflight, grants, lastResp,
          watching, generating, iteration, timer, running, watchLog, lastRegen,
          routeCalls, lastRoute, job, done, llmInFlight,
          registry, owner, pending, lastPlugin,
          disk, recordLog, retained, lastHistory,
          workspace, upgradeLog, lastUpgrade,
          pipe, stages, persisted, lastPipeline,
          limiter, limNow, denial, lastCheck,
          lastScan>>

(***************************************************************************)
(* Hook bus                                                                *)
(***************************************************************************)

\* Bound: total number of handler registrations in one behaviour.
MaxRegs == 3

VALID_HOOKS ==
    { "beforeContext", "afterContext", "beforeEnhance", "afterEnhance",
      "beforeGenerate", "afterGenerate", "beforeValidate", "afterValidate",
      "beforePersist", "afterPersist", "onError" }

\* Hook names the callers of this model pass (one is not a valid hook point).
HookNameInputs == { "beforeGenerate", "onError", "invalidHook" }

\* What a handler function does when it is called with the state:
\*   void         returns undefined (state is kept)
\*   fresh        returns a new state object that carries no _hookErrors
\*   throwError   throws new Error("boom") (or rejects with it)
\*   throwNullish throws undefined (e.g. `return Promise.reject()`)
FnKinds == { "void", "fresh", "throwError", "throwNullish" }

\* Handler names are strings, kept as token sequences so that startsWith is computed.
\* The handlers registered directly with on(): a name and what the function does.
DirectHandlers ==
    { [name |-> <<"a">>, fn |-> "void"],
      [name |-> <<"a">>, fn |-> "throwError"],
      [name |-> <<"b">>, fn |-> "fresh"],
      [name |-> <<"b">>, fn |-> "throwNullish"] }

PriorityInputs == { 5, 10 }

\* Plugin objects passed to registerPlugin: hooks in Object.entries order.
PluginInputs ==
    { [name |-> <<"p">>, priority |-> 5,
       hooks |-> << <<"beforeGenerate", "throwError">>, <<"onError", "void">> >>],
      [name |-> <<"p">>, priority |-> 10,
       hooks |-> << <<"onError", "throwError">>, <<"invalidHook", "void">> >>],
      [name |-> <<>>, priority |-> 10,
       hooks |-> << <<"beforeGenerate", "void">> >>] }

NoRun == [point |-> "none"]

\* String.prototype.startsWith on token sequences.
StartsWith(s, prefix) ==
    /\ Len(prefix) <= Len(s)
    /\ SubSeq(s, 1, Len(prefix)) = prefix

RECURSIVE InsertSorted(_, _)
\* One step of a stable sort on priority: x goes after every element whose
\* priority is <= its own (the comparator a.priority - b.priority keeps ties in order).
InsertSorted(sorted, x) ==
    IF sorted = <<>> THEN <<x>>
    ELSE IF sorted[Len(sorted)].priority - x.priority <= 0
         THEN Append(sorted, x)
         ELSE Append(InsertSorted(SubSeq(sorted, 1, Len(sorted) - 1), x),
                     sorted[Len(sorted)])

RECURSIVE StableSort(_, _)
StableSort(list, n) ==
    IF n = 0 THEN <<>>
    ELSE InsertSorted(StableSort(list, n - 1), list[n])

\* A sort that puts a new element before its equals (mutation of SortByPriority).
RECURSIVE InsertBeforeEquals(_, _)
InsertBeforeEquals(sorted, x) ==
    IF sorted = <<>> THEN <<x>>
    ELSE IF sorted[Len(sorted)].priority - x.priority < 0
         THEN Append(sorted, x)
         ELSE Append(InsertBeforeEquals(SubSeq(sorted, 1, Len(sorted) - 1), x),
                     sorted[Len(sorted)])

RECURSIVE UnstableSort(_, _)
UnstableSort(list, n) ==
    IF n = 0 THEN <<>>
    ELSE InsertBeforeEquals(UnstableSort(list, n - 1), list[n])

SortByPriorityUnstable(list) == UnstableSort(list, Len(list))

\* list.sort((a, b) => a.priority - b.priority): Array.prototype.sort is stable.
SortByPriority(list) == StableSort(list, Len(list))

\* on(hookName, fn, opts) after the validity check: push, then sort.
on(h, hookName, fn, name, priority, seq) ==
    LET list   == IF hookName \in DOMAIN h THEN h[hookName] ELSE <<>>
        pushed == Append(list, [name |-> name, fn |-> fn, priority |-> priority, seq |-> seq])
    IN  [x \in DOMAIN h \cup {hookName} |->
            IF x = hookName THEN SortByPriority(pushed) ELSE h[x]]

RECURSIVE FindIndex(_, _, _)
\* list.findIndex(h => h.name === handlerName), 1-based; 0 when absent.
FindIndex(list, handlerName, i) ==
    IF i > Len(list) THEN 0
    ELSE IF list[i].name = handlerName THEN i
    ELSE FindIndex(list, handlerName, i + 1)

\* list.splice(idx, 1)
Splice(list, idx) == SubSeq(list, 1, idx - 1) \o SubSeq(list, idx + 1, Len(list))

\* off(hookName, handlerName)
off(h, hookName, handlerName) ==
    IF hookName \notin DOMAIN h THEN h
    ELSE LET idx == FindIndex(h[hookName], handlerName, 1)
         IN  IF idx >= 1 THEN [h EXCEPT ![hookName] = Splice(@, idx)] ELSE h

\* A filter that keeps every handler (mutation of FilterNotPlugin).
FilterNothing(list, pluginName) == list

\* list.filter(pred) for pred = name does not start with `${pluginName}:`
FilterNotPlugin(list, pluginName) ==
    LET keep(x) == ~StartsWith(x.name, pluginName \o <<":">>)
    IN  SelectSeq(list, keep)

\* unregisterPlugin(pluginName)
unregisterPlugin(h, pluginName) ==
    [x \in DOMAIN h |-> FilterNotPlugin(h[x], pluginName)]

RECURSIVE RegisterEntries(_, _, _, _)
\* The loop of registerPlugin over Object.entries(plugin.hooks), from entry i:
\* on() throws at the first invalid hook name, keeping what was registered before it.
RegisterEntries(acc, plugin, i, seq) ==
    IF i > Len(plugin.hooks) THEN acc
    ELSE LET hookName == plugin.hooks[i][1]
             fn       == plugin.hooks[i][2]
         IN  IF hookName \notin VALID_HOOKS
             THEN [acc EXCEPT !.threw = TRUE]
             ELSE RegisterEntries(
                    [acc EXCEPT !.h = on(acc.h, hookName, fn,
                                         plugin.name \o <<":", hookName>>,
                                         plugin.priority, seq + 1),
                                !.n = @ + 1],
                    plugin, i + 1, seq + 1)

\* registerPlugin(plugin): [h, n (handlers registered), threw]
registerPlugin(h, plugin, seq) ==
    IF plugin.name = <<>>
    THEN [h |-> h, n |-> 0, threw |-> TRUE]
    ELSE RegisterEntries([h |-> h, n |-> 0, threw |-> FALSE], plugin, 1, seq)

\* The catch block of run for a handler that threw `err` (lines 79-92), before the
\* onError hooks: state._hookErrors is created if absent, then the record
\* {hook, handler, error: err.message} is built and pushed. Reading err.message of
\* undefined throws a TypeError out of the catch block: run rejects.
Capture(r, hookName, handler) ==
    IF handler.fn = "throwNullish"
    THEN [r EXCEPT !.crashed = TRUE]
    ELSE LET rec  == [hook |-> hookName, handler |-> handler.name, error |-> "boom"]
             errs == Append(r.errs, rec)
         IN  [r EXCEPT !.errs = errs,
                       !.arr  = IF r.shared THEN errs ELSE @]

RECURSIVE RunFrom(_, _, _, _, _)
\* The loop of run(hookName, state) over `list`, from handler i (lines 73-93).
\* r.errs is the _hookErrors array of the current state object; r.shared says that
\* this array is the caller's (the state was spread from the caller's state), and
\* r.arr is the content of the caller's array.
RunFrom(h, hookName, list, i, r) ==
    IF i > Len(list) \/ r.crashed THEN r
    ELSE
      LET handler == list[i]
          called  == [r EXCEPT !.trace = Append(@, [hook |-> hookName, handler |-> handler])]
      IN  CASE handler.fn = "void" ->
                 RunFrom(h, hookName, list, i + 1, called)
            [] handler.fn = "fresh" ->
                 RunFrom(h, hookName, list, i + 1,
                         [called EXCEPT !.errs = <<>>, !.shared = FALSE])
            [] OTHER ->
                 LET failedNow == [called EXCEPT !.failed =
                                      Append(@, [hook |-> hookName, handler |-> handler.name])]
                     cap == Capture(failedNow, hookName, handler)
                 IN  IF cap.crashed THEN cap
                     ELSE IF hookName = "onError" \/ "onError" \notin DOMAIN h
                          THEN RunFrom(h, hookName, list, i + 1, cap)
                          ELSE \* await run('onError', { ...state, ... }): result discarded
                               LET nested == RunFrom(h, "onError", h["onError"], 1,
                                                [cap EXCEPT !.shared = TRUE, !.arr = cap.errs])
                                   back == [cap EXCEPT
                                              !.errs    = nested.arr,
                                              !.arr     = IF cap.shared THEN nested.arr ELSE @,
                                              !.trace   = nested.trace,
                                              !.failed  = nested.failed,
                                              !.crashed = nested.crashed]
                               IN  RunFrom(h, hookName, list, i + 1, back)

\* run(hookName, state) for a state whose _hookErrors holds `prior`.
run(h, hookName, prior) ==
    LET r0 == [errs |-> prior, shared |-> FALSE, arr |-> <<>>,
               trace |-> <<>>, failed |-> <<>>, crashed |-> FALSE]
    IN  IF hookName \notin DOMAIN h THEN r0
        ELSE RunFrom(h, hookName, h[hookName], 1, r0)

\* States passed to run: a fresh {} or a state holding a record of an earlier run.
PriorInputs ==
    { <<>>, << [hook |-> "beforeContext", handler |-> <<"old">>, error |-> "earlier"] >> }

RunPointInputs == { "beforeGenerate", "onError", "afterPersist" }

HookInit ==
    /\ hooks = << >>
    /\ regCount = 0
    /\ lastRun = NoRun

\* on(hookName, fn, {name, priority}); throws on an invalid hook name.
On(hookName, hd, priority) ==
    /\ regCount < MaxRegs
    /\ IF hookName \in VALID_HOOKS
       THEN /\ hooks' = on(hooks, hookName, hd.fn, hd.name, priority, regCount + 1)
            /\ regCount' = regCount + 1
       ELSE UNCHANGED <<hooks, regCount>>
    /\ lastRun' = NoRun
    /\ UNCHANGED notHook

Off(hookName, handlerName) ==
    /\ hooks' = off(hooks, hookName, handlerName)
    /\ lastRun' = NoRun
    /\ UNCHANGED notHook
    /\ UNCHANGED regCount

RegisterPlugin(plugin) ==
    /\ regCount + Len(plugin.hooks) <= MaxRegs
    /\ LET res == registerPlugin(hooks, plugin, regCount)
       IN  /\ hooks' = res.h
           /\ regCount' = regCount + res.n
    /\ lastRun' = NoRun
    /\ UNCHANGED notHook

UnregisterPlugin(pluginName) ==
    /\ hooks' = unregisterPlugin(hooks, pluginName)
    /\ lastRun' = NoRun
    /\ UNCHANGED notHook
    /\ UNCHANGED regCount

\* await run(hookName, state): the registry is not mutated while it runs.
Run(hookName, prior) ==
    /\ lastRun' = [point |-> hookName,
                   list  |-> IF hookName \in DOMAIN hooks THEN hooks[hookName] ELSE <<>>,
                   prior |-> prior,
                   res   |-> run(hooks, hookName, prior)]
    /\ UNCHANGED <<hooks, regCount>>
    /\ UNCHANGED notHook

HookNext ==
    \/ \E hookName \in HookNameInputs, hd \in DirectHandlers, priority \in PriorityInputs :
          On(hookName, hd, priority)
    \/ \E hookName \in HookNameInputs, hd \in DirectHandlers : Off(hookName, hd.name)
    \/ \E plugin \in PluginInputs : RegisterPlugin(plugin)
    \/ \E plugin \in PluginInputs : UnregisterPlugin(plugin.name)
    \/ \E hookName \in RunPointInputs, prior \in PriorInputs : Run(hookName, prior)


(***************************************************************************)
(* Hook bus: claims                                                        *)
(***************************************************************************)

\* The handlers of the run's own hook point that the last run invoked, in order.
InvokedAtPoint ==
    LET atPoint(e) == e.hook = lastRun.point
        entries == SelectSeq(lastRun.res.trace, atPoint)
    IN  [i \in 1..Len(entries) |-> entries[i].handler]

Throws(handler) == handler.fn \in { "throwError", "throwNullish" }

\* C1: in run(point, state) a handler that throws or rejects does not keep the
\* handlers registered after it from being invoked, and run itself completes
\* normally, whatever the handlers do.
C1_RunNeverFails ==
    lastRun # NoRun =>
        /\ ~lastRun.res.crashed
        /\ InvokedAtPoint = lastRun.list

RECURSIVE ExpectedTrace(_, _, _, _)
\* The invocations the hook bus is said to make: every handler of the point in
\* order, each failing one followed by all onError handlers unless the point is onError.
ExpectedTrace(point, list, onErr, i) ==
    IF i > Len(list) THEN <<>>
    ELSE << [hook |-> point, handler |-> list[i]] >>
         \o (IF Throws(list[i]) /\ point # "onError"
             THEN [k \in 1..Len(onErr) |-> [hook |-> "onError", handler |-> onErr[k]]]
             ELSE <<>>)
         \o ExpectedTrace(point, list, onErr, i + 1)

\* C2: the state that run returns holds one {hook, handler, error} record for each
\* handler of the point that failed during the run, and after each capture the
\* onError handlers are invoked unless the failing point is itself onError.
C2_FailuresCaptured ==
    lastRun # NoRun =>
        LET ofPoint(rec) == rec.hook = lastRun.point
            failing == SelectSeq(lastRun.list, Throws)
            onErr == IF "onError" \in DOMAIN hooks THEN hooks["onError"] ELSE <<>>
        IN  /\ ~lastRun.res.crashed
            /\ LET got == SelectSeq(lastRun.res.errs, ofPoint)
               IN  /\ Len(got) = Len(failing)
                   /\ \A i \in 1..Len(got) :
                         /\ got[i].hook = lastRun.point
                         /\ got[i].handler = failing[i].name
            /\ lastRun.res.trace = ExpectedTrace(lastRun.point, lastRun.list, onErr, 1)

\* Handler x runs before handler y: lower priority first, registration order on ties.
Before(x, y) ==
    \/ x.priority < y.priority
    \/ (x.priority = y.priority /\ x.seq < y.seq)

MaxEntries == 2
CacheTtl == 2
MaxCacheTime == 2

CacheKeys == { "k1", "k2", "k3" }
CacheValues == { "v1", "v2" }
\* The ttl argument of set: 0 stands for an omitted (undefined) ttl.
TtlInputs == { 0, 1 }

NoEntry == [key |-> "none"]

MapKeys(m) == { m[i].key : i \in 1..Len(m) }

\* Map.prototype.get
MapGet(m, key) ==
    IF key \in MapKeys(m)
    THEN LET i == CHOOSE i \in 1..Len(m) : m[i].key = key IN m[i]
    ELSE NoEntry

\* Map.prototype.delete
MapDelete(m, key) ==
    LET other(e) == e.key # key IN SelectSeq(m, other)

\* Map.prototype.set: a new key goes to the end, an existing key keeps its position.
MapSet(m, key, entry) ==
    IF key \in MapKeys(m)
    THEN [i \in 1..Len(m) |-> IF m[i].key = key THEN entry ELSE m[i]]
    ELSE Append(m, entry)

\* An expiry test that is late by one tick (mutation of IsExpired).
IsExpiredLate(entry, t) == t > entry.expires + 1

\* Date.now() > entry.expires
IsExpired(entry, t) == t > entry.expires

\* ttl || this.ttl
EffectiveTtl(ttl) == IF ttl # 0 THEN ttl ELSE CacheTtl

\* Remove a key from a sequence of keys / move it to the end (recency bookkeeping).
Forget(order, key) ==
    LET other(k) == k # key IN SelectSeq(order, other)

Touch(order, key) == Append(Forget(order, key), key)

CacheInit ==
    /\ store = <<>>
    /\ cacheNow = 0
    /\ useOrder = <<>>
    /\ written = [k \in CacheKeys |-> "none"]
    /\ lastCache = [op |-> "none"]

\* get(key)
CacheGet(key) ==
    LET entry == MapGet(store, key)
    IN  /\ IF entry = NoEntry
           THEN /\ UNCHANGED <<store, useOrder>>
                /\ lastCache' = [op |-> "get", key |-> key, at |-> cacheNow, pre |-> entry,
                                 hit |-> FALSE, value |-> "undefined"]
           ELSE IF IsExpired(entry, cacheNow)
           THEN /\ store' = MapDelete(store, key)
                /\ useOrder' = Forget(useOrder, key)
                /\ lastCache' = [op |-> "get", key |-> key, at |-> cacheNow, pre |-> entry,
                                 hit |-> FALSE, value |-> "undefined"]
           ELSE /\ store' = MapSet(MapDelete(store, key), key, entry)
                /\ useOrder' = Touch(useOrder, key)
                /\ lastCache' = [op |-> "get", key |-> key, at |-> cacheNow, pre |-> entry,
                                 hit |-> TRUE, value |-> entry.value]
        /\ UNCHANGED <<cacheNow, written>>
    /\ UNCHANGED notCache
        /\ UNCHANGED notCache

\* set(key, value, ttl)
CacheSet(key, value, ttl) ==
    LET full    == Len(store) >= MaxEntries /\ key \notin MapKeys(store)
        oldest  == store[1].key
        kept    == IF full THEN MapDelete(store, oldest) ELSE store
        entry   == [key |-> key, value |-> value,
                    expires |-> cacheNow + EffectiveTtl(ttl), created |-> cacheNow]
    IN  /\ store' = MapSet(kept, key, entry)
        /\ useOrder' = Touch(IF full THEN Forget(useOrder, oldest) ELSE useOrder, key)
        /\ written' = [written EXCEPT ![key] = value]
        /\ lastCache' = [op |-> "set", key |-> key, wasFull |-> full,
                         preKeys |-> MapKeys(store), preOrder |-> useOrder]
        /\ UNCHANGED cacheNow
        /\ UNCHANGED notCache

\* has(key)
CacheHas(key) ==
    LET entry == MapGet(store, key)
    IN  /\ IF entry # NoEntry /\ IsExpired(entry, cacheNow)
           THEN /\ store' = MapDelete(store, key)
                /\ useOrder' = Forget(useOrder, key)
           ELSE UNCHANGED <<store, useOrder>>
        /\ lastCache' = [op |-> "has", key |-> key,
                         result |-> (entry # NoEntry /\ ~IsExpired(entry, cacheNow))]
        /\ UNCHANGED <<cacheNow, written>>
    /\ UNCHANGED notCache
        /\ UNCHANGED notCache

\* delete(key)
CacheDelete(key) ==
    /\ store' = MapDelete(store, key)
    /\ useOrder' = Forget(useOrder, key)
    /\ lastCache' = [op |-> "delete", key |-> key]
    /\ UNCHANGED <<cacheNow, written>>
    /\ UNCHANGED notCache

\* prune(): deletes every expired entry, returns their number.
CachePrune ==
    LET live(e) == ~IsExpired(e, cacheNow)
        liveKey(k) == live(MapGet(store, k))
    IN  /\ store' = SelectSeq(store, live)
        /\ useOrder' = SelectSeq(useOrder, liveKey)
        /\ lastCache' = [op |-> "prune", pruned |-> Len(store) - Len(SelectSeq(store, live))]
        /\ UNCHANGED <<cacheNow, written>>
    /\ UNCHANGED notCache
        /\ UNCHANGED notCache

\* Time passes.
CacheTick ==
    /\ cacheNow < MaxCacheTime
    /\ cacheNow' = cacheNow + 1
    /\ UNCHANGED <<store, useOrder, written, lastCache>>
    /\ UNCHANGED notCache

CacheNext ==
    \/ \E key \in CacheKeys : CacheGet(key)
    \/ \E key \in CacheKeys, value \in CacheValues, ttl \in TtlInputs : CacheSet(key, value, ttl)
    \/ \E key \in CacheKeys : CacheHas(key)
    \/ \E key \in CacheKeys : CacheDelete(key)
    \/ CachePrune
    \/ CacheTick

(***************************************************************************)
(* Cache manager: claims                                                   *)
(***************************************************************************)

\* C4: the cache never returns an expired entry: a get(key) made when
\* now > expiresAt of that key's entry returns absent and removes the entry, and a
\* successful get within the TTL returns the value last set for that key.
C4_NeverReturnsExpired ==
    lastCache.op = "get" =>
        /\ (lastCache.pre # NoEntry /\ lastCache.at > lastCache.pre.expires) =>
              (~lastCache.hit /\ lastCache.key \notin MapKeys(store))
        /\ lastCache.hit =>
              /\ lastCache.value = written[lastCache.key]
              /\ lastCache.at <= lastCache.pre.expires

\* A get that found an entry whose expiry had passed.
C4_Witness ==
    /\ lastCache.op = "get"
    /\ lastCache.pre # NoEntry
    /\ lastCache.at > lastCache.pre.expires
    /\ ~lastCache.hit

\* C5: when set is called with a key not in the cache while the cache holds
\* maxEntries entries, exactly one entry is evicted and it is the one whose most
\* recent use (set or successful get) is the oldest, so the size never exceeds
\* maxEntries.
C5_EvictsLeastRecentlyUsed ==
    /\ Len(store) <= MaxEntries
    /\ (lastCache.op = "set" /\ lastCache.wasFull) =>
          /\ Cardinality(lastCache.preKeys \ MapKeys(store)) = 1
          /\ lastCache.preKeys \ MapKeys(store) = { lastCache.preOrder[1] }

(***************************************************************************)
(* SSE channel                                                             *)
(***************************************************************************)

\* Bounds: the channel's maxClients option, and the number of send, broadcast and
\* heartbeat calls together.
MaxClients == 2
MaxWrites == 2

\* One connection more than the channel admits.
ConnIds == 1..(MaxClients + 1)

NoConn == [c |-> 0]
NoSend == [op |-> "none"]

\* A response object that is not (or no longer) connected: what was written to a
\* response is kept only while its connection lasts.
FreshConn == [phase |-> "idle", destroyed |-> FALSE, out |-> <<>>]

\* Connections are interchangeable: a new one takes the least free identifier.
NextConn(cn) ==
    IF \E c \in ConnIds : cn[c].phase = "idle"
    THEN CHOOSE c \in ConnIds : cn[c].phase = "idle" /\ \A d \in ConnIds : cn[d].phase = "idle" => c <= d
    ELSE 0

HeartbeatComment == <<": heartbeat\n\n">>

\* formatSSE(event, data, id): the payload text as a sequence of pieces.
\* `id` and `event` are "" when omitted; data is the text of
\* `typeof data === 'string' ? data : JSON.stringify(data)`.
formatSSE(event, data, id) ==
    (IF id # "" THEN <<"id: ", id, "\n">> ELSE <<>>)
    \o (IF event # "" /\ event # "message" THEN <<"event: ", event, "\n">> ELSE <<>>)
    \o <<"data: ", data, "\n\n">>

\* A write that puts the chunk ahead of what was written before (mutation of ResWrite).
ResWritePrepend(out, chunk) == <<chunk>> \o out

\* res.write(chunk): the chunk follows everything written to the response before.
ResWrite(out, chunk) == Append(out, chunk)

\* A capacity test that lets one client too many in (mutation of ChannelFull).
ChannelFullOffByOne(size) == size > MaxClients

\* clients.size >= maxClients
ChannelFull(size) == size >= MaxClients

SeqToSet(q) == { q[i] : i \in 1..Len(q) }

\* Set.prototype.delete
SetDelete(set, c) ==
    LET other(x) == x # c IN SelectSeq(set, other)

RECURSIVE WriteAll(_, _, _, _, _)
\* A write whose exception leaves the loop and the function (mutation of ThrowCaught).
ThrowPropagates(todo, set, cn, chunk, throwing) ==
    [clients |-> set, conn |-> cn, threw |-> TRUE]

\* try { res.write(payload); } catch { clients.delete(res); }: the response whose
\* write throws is deleted and the loop goes on with the next response.
ThrowCaught(todo, set, cn, chunk, throwing) ==
    WriteAll(Tail(todo), SetDelete(set, Head(todo)), cn, chunk, throwing)

\* The loop `for (const res of clients)` of send and of the heartbeat callback:
\* a destroyed response is deleted, a response whose write throws is deleted.
\* `todo` are the responses still to visit, `throwing` those whose write throws.
WriteAll(todo, set, cn, chunk, throwing) ==
    IF todo = <<>> THEN [clients |-> set, conn |-> cn, threw |-> FALSE]
    ELSE LET c == Head(todo)
         IN  IF cn[c].destroyed
             THEN WriteAll(Tail(todo), SetDelete(set, c), cn, chunk, throwing)
             ELSE IF c \in throwing
             THEN ThrowCaught(todo, set, cn, chunk, throwing)
             ELSE WriteAll(Tail(todo), set,
                           [cn EXCEPT ![c].out = ResWrite(@, chunk)], chunk, throwing)

\* send(event, data, id), the n-th send of the channel.
send(set, cn, n, event, data, id, throwing) ==
    WriteAll(set, set, cn, [n |-> n, text |-> formatSSE(event, data, id)], throwing)

\* handler(req, res) for the response c: 503 when the channel is full, else the
\* response is added and the heartbeat started.
handler(set, cn, hb, c) ==
    IF ChannelFull(Len(set))
    THEN [clients |-> set, conn |-> cn, heartbeat |-> hb, status |-> 503, added |-> FALSE]
    ELSE [clients |-> Append(set, c),
          conn |-> [cn EXCEPT ![c] = [FreshConn EXCEPT !.phase = "open"]],
          heartbeat |-> TRUE, status |-> 200, added |-> TRUE]

SseInit ==
    /\ clients = <<>>
    /\ conn = [c \in ConnIds |-> FreshConn]
    /\ heartbeat = FALSE
    /\ sent = <<>>
    /\ beats = 0
    /\ lastConn = NoConn
    /\ lastSend = NoSend

\* handler(req, res) for a new request/response pair c.
SseConnect(c) ==
    /\ c = NextConn(conn)
    /\ LET res == handler(clients, conn, heartbeat, c)
       IN  /\ clients' = res.clients
           /\ conn' = res.conn
           /\ heartbeat' = res.heartbeat
           /\ lastConn' = [c |-> c, size |-> Len(clients), status |-> res.status,
                           added |-> (c \in SeqToSet(res.clients))]
           /\ lastSend' = NoSend
    /\ UNCHANGED <<sent, beats>>
    /\ UNCHANGED notSse

\* The socket of an accepted connection goes away: res.destroyed becomes true;
\* the request's 'close' event is delivered later.
SseSocketDestroyed(c) ==
    /\ conn[c].phase = "open"
    /\ ~conn[c].destroyed
    /\ conn' = [conn EXCEPT ![c].destroyed = TRUE]
    /\ lastConn' = NoConn
    /\ lastSend' = NoSend
    /\ UNCHANGED <<clients, heartbeat, sent, beats>>
    /\ UNCHANGED notSse

\* req.on('close', ...) of an accepted connection.
SseReqClose(c) ==
    /\ conn[c].phase = "open"
    /\ conn[c].destroyed
    /\ clients' = SetDelete(clients, c)
    /\ conn' = [conn EXCEPT ![c] = FreshConn]
    /\ heartbeat' = IF Len(SetDelete(clients, c)) = 0 THEN FALSE ELSE heartbeat
    /\ lastConn' = NoConn
    /\ lastSend' = NoSend
    /\ UNCHANGED <<sent, beats>>
    /\ UNCHANGED notSse

\* channel.send(event, data, id); the data of the n-th call is n.
SseSend(event, id, throwing) ==
    /\ Len(sent) + beats < MaxWrites
    /\ LET n   == Len(sent) + 1
           res == send(clients, conn, n, event, n, id, throwing)
       IN  /\ clients' = res.clients
           /\ conn' = res.conn
           /\ sent' = Append(sent, formatSSE(event, n, id))
           /\ lastSend' = [op |-> "send", n |-> n, threw |-> res.threw, before |-> clients,
                           destroyed |-> { c \in SeqToSet(clients) : conn[c].destroyed },
                           throwing |-> { c \in throwing : ~conn[c].destroyed },
                           outLen |-> [c \in ConnIds |-> Len(conn[c].out)]]
    /\ lastConn' = NoConn
    /\ UNCHANGED <<heartbeat, beats>>
    /\ UNCHANGED notSse

\* channel.broadcast(data)
SseBroadcast(throwing) == SseSend("message", "", throwing)

\* The setInterval callback of startHeartbeat.
SseHeartbeat(throwing) ==
    /\ heartbeat
    /\ Len(sent) + beats < MaxWrites
    /\ LET res == WriteAll(clients, clients, conn, [n |-> 0, text |-> HeartbeatComment], throwing)
       IN  /\ clients' = res.clients
           /\ conn' = res.conn
    /\ beats' = beats + 1
    /\ lastConn' = NoConn
    /\ lastSend' = NoSend
    /\ UNCHANGED <<heartbeat, sent>>
    /\ UNCHANGED notSse

\* channel.close(): every response is ended, the set is cleared.
SseClose ==
    /\ heartbeat' = FALSE
    /\ conn' = [c \in ConnIds |->
                  IF conn[c].phase = "open" /\ \E i \in 1..Len(clients) : clients[i] = c
                  THEN FreshConn
                  ELSE conn[c]]
    /\ clients' = <<>>
    /\ lastConn' = NoConn
    /\ lastSend' = NoSend
    /\ UNCHANGED <<sent, beats>>
    /\ UNCHANGED notSse

SseNext ==
    \/ \E c \in ConnIds : SseConnect(c)
    \/ \E c \in ConnIds : SseSocketDestroyed(c)
    \/ \E c \in ConnIds : SseReqClose(c)
    \/ \E throwing \in SUBSET SeqToSet(clients) : SseSend("update", "42", throwing)
    \/ \E throwing \in SUBSET SeqToSet(clients) : SseBroadcast(throwing)
    \/ \E throwing \in SUBSET SeqToSet(clients) : SseHeartbeat(throwing)
    \/ SseClose

(***************************************************************************)
(* SSE channel: claims                                                     *)
(***************************************************************************)

\* C9: an SSE channel never holds more than maxClients connected clients: a
\* connection arriving while clientCount < maxClients is accepted, and a
\* connection arriving while clientCount = maxClients is answered 503 and not added.
C9_MaxClients ==
    /\ Len(clients) <= MaxClients
    /\ lastConn # NoConn =>
          /\ lastConn.size < MaxClients => (lastConn.status = 200 /\ lastConn.added)
          /\ lastConn.size = MaxClients => (lastConn.status = 503 /\ ~lastConn.added)

\* A connection refused with 503 while the channel holds exactly maxClients clients.
C9_Witness ==
    /\ lastConn # NoConn
    /\ lastConn.status = 503
    /\ Len(clients) = MaxClients

\* The events (not the heartbeat comments) written to connection c, in order.
EventsOf(c) ==
    LET isEvent(w) == w.n # 0 IN SelectSeq(conn[c].out, isEvent)

\* C10: every client connected to the channel receives the channel's events in the
\* order of the send/broadcast calls that produced them.
C10_EventOrder ==
    \A c \in ConnIds :
        LET ev == EventsOf(c)
        IN  /\ \A i \in 1..Len(ev) :
                  /\ ev[i].n \in 1..Len(sent)
                  /\ ev[i].text = sent[ev[i].n]
            /\ \A i, j \in 1..Len(ev) : i < j => ev[i].n < ev[j].n

\* A connected client that has received two events, beside a client that connected
\* between the two send calls and has received the second only.
C10_Witness ==
    \E c \in ConnIds :
        /\ conn[c].phase = "open"
        /\ Len(EventsOf(c)) = 2
        /\ \E d \in ConnIds : d # c /\ conn[d].phase = "open" /\ Len(EventsOf(d)) = 1

\* A send call has just returned or thrown.
SendEnded == lastSend.op = "send"

\* The clients of the channel that send could not write to: destroyed, or write threw.
Unwritable == lastSend.destroyed \cup lastSend.throwing

\* The response c has received the event of the last send as its latest chunk.
ReceivedLast(c) ==
    /\ Len(conn[c].out) = lastSend.outLen[c] + 1
    /\ conn[c].out[Len(conn[c].out)] = [n |-> lastSend.n, text |-> sent[lastSend.n]]

\* C35: SSE writes are best-effort: a client that is destroyed or whose write throws is
\* removed from the channel during send, send itself never throws, and every other
\* connected client still receives the event.
C35_BestEffortWrites ==
    SendEnded =>
        /\ ~lastSend.threw
        /\ \A c \in Unwritable : c \notin SeqToSet(clients)
        /\ \A c \in SeqToSet(lastSend.before) \ Unwritable :
               c \in SeqToSet(clients) /\ ReceivedLast(c)
        /\ \A c \in ConnIds \ SeqToSet(lastSend.before) : Len(conn[c].out) = lastSend.outLen[c]

\* A send in which the write to the first client threw and the second client, visited
\* after it, received the event.
C35_Witness ==
    /\ SendEnded
    /\ Len(lastSend.before) = 2
    /\ lastSend.before[1] \in lastSend.throwing
    /\ lastSend.before[2] \notin Unwritable
    /\ ReceivedLast(lastSend.before[2])
    /\ clients = <<lastSend.before[2]>>

(***************************************************************************)
(* API server: rate limiter, bearer auth, routes                           *)
(***************************************************************************)

\* Bounds: the largest rateLimit a server is created with, the limiter's windowMs
\* (in clock ticks), the last tick of the clock, and the number of requests the
\* server receives.
RateMax == 2
RateWindow == 2
MaxApiTime == 2
MaxApiRequests == 3

Ips == { "ip1", "ip2" }

\* Authorization header values, as pieces; <<>> is a missing header.
AuthHeaders == { <<>>, <<"Bearer ", "secret">>, <<"Bearer ", "wrong">> }

\* Request lines and bodies the clients send. Paths are split at "/" (the leading
\* empty piece left out); a body is JSON with the route's required fields
\* ("valid"), {} ("empty") or text that is not JSON ("badJson").
RequestLines ==
    { [method |-> "GET",     pathname |-> <<"api", "health">>,         body |-> "empty"],
      [method |-> "GET",     pathname |-> <<"api", "progress">>,       body |-> "empty"],
      [method |-> "GET",     pathname |-> <<"api", "models">>,         body |-> "empty"],
      [method |-> "GET",     pathname |-> <<"api", "history">>,        body |-> "empty"],
      [method |-> "GET",     pathname |-> <<"api", "grimoire", "s1">>, body |-> "empty"],
      [method |-> "GET",     pathname |-> <<"api", "unknown">>,        body |-> "empty"],
      [method |-> "POST",    pathname |-> <<"api", "generate">>,       body |-> "valid"],
      [method |-> "POST",    pathname |-> <<"api", "generate">>,       body |-> "empty"],
      [method |-> "POST",    pathname |-> <<"api", "validate">>,       body |-> "valid"],
      [method |-> "POST",    pathname |-> <<"api", "grimoire">>,       body |-> "badJson"],
      [method |-> "OPTIONS", pathname |-> <<"api", "generate">>,       body |-> "empty"] }

\* The tokens a server is created with; "" is no token.
TokenInputs == { "", "secret" }

\* The optional functions the server was created with.
Configured == { "generate", "grimoire", "history" }

\* An auth check that looks at the scheme only (mutation of checkAuth).
checkAuthSchemeOnly(header, tok) ==
    \/ tok = ""
    \/ (header # <<>> /\ header[1] = "Bearer ")

\* checkAuth(req, token)
checkAuth(header, tok) ==
    \/ tok = ""
    \/ header = <<"Bearer ", tok>>

\* An exemption that forgets /api/health (mutation of AuthExempt).
AuthExemptProgressOnly(pathname) == pathname = <<"api", "progress">>

\* pathname !== '/api/health' && pathname !== '/api/progress', negated
AuthExempt(pathname) ==
    pathname = <<"api", "health">> \/ pathname = <<"api", "progress">>

\* A limit test that grants one check too many (mutation of BelowLimit).
BelowLimitInclusive(n, maxRequests) == n <= maxRequests

\* hits.length < this.maxRequests
BelowLimit(n, maxRequests) == n < maxRequests

\* A limiter that records denied checks too (mutation of Recorded).
RecordedAlways(filtered, allowed, now) == Append(filtered, now)

\* if (allowed) hits.push(now)
Recorded(filtered, allowed, now) == IF allowed THEN Append(filtered, now) ELSE filtered

\* RateLimiter.check(ip) at time `now`; `cleanup` is Math.random() < 0.01.
check(w, maxRequests, ip, now, cleanup) ==
    LET cutoff   == now - RateWindow
        recent(t) == t > cutoff
        stored   == IF ip \in DOMAIN w THEN w[ip] ELSE <<>>
        filtered == SelectSeq(stored, recent)
        allowed  == BelowLimit(Len(filtered), maxRequests)
        hits     == Recorded(filtered, allowed, now)
        w1       == [k \in DOMAIN w \cup {ip} |-> IF k = ip THEN hits ELSE w[k]]
        stale(k) == \A i \in 1..Len(w1[k]) : w1[k][i] <= cutoff
        w2       == IF cleanup
                    THEN [k \in { x \in DOMAIN w1 : ~stale(x) } |-> w1[k]]
                    ELSE w1
    IN  [windows   |-> w2,
         allowed   |-> allowed,
         remaining |-> IF maxRequests - Len(hits) > 0 THEN maxRequests - Len(hits) ELSE 0,
         resetMs   |-> IF Len(hits) > 0 THEN hits[1] + RateWindow - now ELSE 0]

\* matchRoute(pattern, pathname) # null, for patterns whose pieces starting with ":"
\* are parameters.
matchRoute(pattern, pathname) ==
    /\ Len(pattern) = Len(pathname)
    /\ \A i \in 1..Len(pattern) : pattern[i] = ":id" \/ pattern[i] = pathname[i]

\* The route a request reaches inside the try block, and the answer of the routes
\* that answer at once: [route, status]. Status 0: the answer comes later.
Dispatch(method, pathname, body) ==
    CASE pathname = <<"api", "health">> /\ method = "GET" ->
            [route |-> "health", status |-> 200]
      [] pathname = <<"api", "models">> /\ method = "GET" ->
            [route |-> "models", status |-> 200]
      [] pathname = <<"api", "generate">> /\ method = "POST" ->
            [route |-> "generate",
             status |-> IF body = "badJson" THEN 500
                        ELSE IF body = "empty" THEN 400
                        ELSE IF "generate" \notin Configured THEN 501
                        ELSE 0]
      [] pathname = <<"api", "validate">> /\ method = "POST" ->
            [route |-> "validate",
             status |-> IF body = "badJson" THEN 500
                        ELSE IF body = "empty" THEN 400
                        ELSE IF "validate" \notin Configured THEN 501
                        ELSE 200]
      [] pathname = <<"api", "grimoire">> /\ method = "GET" ->
            [route |-> "grimoire",
             status |-> IF "grimoire" \notin Configured THEN 501 ELSE 200]
      [] pathname = <<"api", "grimoire">> /\ method = "POST" ->
            [route |-> "grimoire",
             status |-> IF body = "badJson" THEN 500
                        ELSE IF body = "empty" THEN 400
                        ELSE IF "grimoire" \notin Configured THEN 501
                        ELSE 201]
      [] matchRoute(<<"api", "grimoire", ":id">>, pathname) /\ method = "GET" ->
            [route |-> "grimoire",
             status |-> IF "grimoire" \notin Configured THEN 501 ELSE 200]
      [] pathname = <<"api", "history">> /\ method = "GET" ->
            [route |-> "history",
             status |-> IF "history" \notin Configured THEN 501 ELSE 200]
      [] pathname = <<"api", "progress">> /\ method = "GET" ->
            [route |-> "progress", status |-> 0]
      [] OTHER ->
            [route |-> "notFound", status |-> 404]

NoResp == [status |-> 0]

\* Before createApiServer is called there is no server: no token, no limiter.
ApiInit ==
    /\ listening = FALSE
    /\ token = ""
    /\ rateMax = 0
    /\ windows = << >>
    /\ apiNow = 0
    /\ requestCount = 0
    /\ inflight = 0
    /\ grants = [ip \in Ips |-> <<>>]
    /\ lastResp = NoResp

\* The number of checks granted to ip in the window that ends at time t.
GrantedInWindow(ip, t) ==
    LET inWin(g) == g > t - RateWindow /\ g <= t
    IN  Len(SelectSeq(grants[ip], inWin))

\* createApiServer({ token, rateLimit }) and listen.
ApiCreate(tok, rateLimit) ==
    /\ ~listening
    /\ listening' = TRUE
    /\ token' = tok
    /\ rateMax' = rateLimit
    /\ UNCHANGED <<windows, apiNow, requestCount, inflight, grants, lastResp>>
    /\ UNCHANGED sseVars
    /\ UNCHANGED notApi

\* The request handler of createApiServer, up to its answer or, for
\* POST /api/generate, up to the await of generateFn.
ApiRequest(ip, method, pathname, header, body, cleanup) ==
    /\ listening
    /\ requestCount < MaxApiRequests
    /\ pathname = <<"api", "progress">> => NextConn(conn) # 0
    /\ cleanup => check(windows, rateMax, ip, apiNow, TRUE).windows
                    # check(windows, rateMax, ip, apiNow, FALSE).windows
    /\ requestCount' = requestCount + 1
    /\ LET req == [ip |-> ip, method |-> method, pathname |-> pathname, header |-> header,
                   before |-> GrantedInWindow(ip, apiNow)]
           rl  == check(windows, rateMax, ip, apiNow, cleanup)
           d   == Dispatch(method, pathname, body)
           n   == Len(sent) + 1
       IN  IF method = "OPTIONS"
           THEN /\ lastResp' = [req |-> req, status |-> 204, route |-> "none", retryAfterMs |-> 0]
                /\ UNCHANGED <<windows, grants, inflight, sseVars>>
           ELSE
             /\ windows' = rl.windows
             /\ grants' = IF rl.allowed
                           THEN [grants EXCEPT ![ip] = Append(@, apiNow)]
                           ELSE grants
             /\ IF ~rl.allowed
                THEN /\ lastResp' = [req |-> req, status |-> 429, route |-> "none",
                                     retryAfterMs |-> rl.resetMs]
                     /\ UNCHANGED <<inflight, sseVars>>
                ELSE IF ~AuthExempt(pathname) /\ ~checkAuth(header, token)
                THEN /\ lastResp' = [req |-> req, status |-> 401, route |-> "none",
                                     retryAfterMs |-> 0]
                     /\ UNCHANGED <<inflight, sseVars>>
                ELSE IF d.route = "progress"
                THEN LET res == handler(clients, conn, heartbeat, NextConn(conn))
                     IN  /\ clients' = res.clients
                         /\ conn' = res.conn
                         /\ heartbeat' = res.heartbeat
                         /\ lastResp' = [req |-> req, status |-> res.status,
                                         route |-> "progress", retryAfterMs |-> 0]
                         /\ lastConn' = NoConn
                         /\ lastSend' = NoSend
                         /\ UNCHANGED <<inflight, sent, beats>>
                ELSE IF d.route = "generate" /\ d.status = 0
                THEN \* progressChannel.broadcast({ type: 'start', prompt })
                     LET res == send(clients, conn, n, "message", "{type:start}", "", {})
                     IN  /\ clients' = res.clients
                         /\ conn' = res.conn
                         /\ sent' = Append(sent, formatSSE("message", "{type:start}", ""))
                         /\ inflight' = inflight + 1
                         /\ lastResp' = [req |-> req, status |-> 0, route |-> "generate",
                                         retryAfterMs |-> 0]
                         /\ lastConn' = NoConn
                         /\ lastSend' = NoSend
                         /\ UNCHANGED <<heartbeat, beats>>
                ELSE /\ lastResp' = [req |-> req, status |-> d.status, route |-> d.route,
                                     retryAfterMs |-> 0]
                     /\ UNCHANGED <<inflight, sseVars>>
    /\ UNCHANGED <<listening, token, rateMax, apiNow>>
    /\ UNCHANGED notApi

\* generateFn settles for a request in flight: on success the complete event is
\* broadcast and the request answered 200; a rejection is answered 500.
ApiGenerateDone(ok) ==
    /\ inflight > 0
    /\ inflight' = inflight - 1
    /\ IF ok
       THEN LET n   == Len(sent) + 1
                res == send(clients, conn, n, "message", "{type:complete}", "", {})
            IN  /\ clients' = res.clients
                /\ conn' = res.conn
                /\ sent' = Append(sent, formatSSE("message", "{type:complete}", ""))
                /\ lastConn' = NoConn
                /\ lastSend' = NoSend
       ELSE UNCHANGED <<clients, conn, sent, lastConn, lastSend>>
    /\ lastResp' = [settled |-> "generate", status |-> IF ok THEN 200 ELSE 500]
    /\ UNCHANGED <<listening, token, rateMax, windows, apiNow, requestCount, grants, heartbeat, beats>>
    /\ UNCHANGED notApi

\* Time passes.
ApiTick ==
    /\ listening
    /\ apiNow < MaxApiTime
    /\ apiNow' = apiNow + 1
    /\ lastResp' = NoResp
    /\ UNCHANGED <<listening, token, rateMax, windows, requestCount, inflight, grants>>
    /\ UNCHANGED sseVars
    /\ UNCHANGED notApi

ApiNext ==
    \/ \E tok \in TokenInputs, rateLimit \in 0..RateMax : ApiCreate(tok, rateLimit)
    \/ \E ip \in Ips, line \in RequestLines, header \in AuthHeaders, cleanup \in BOOLEAN :
          ApiRequest(ip, line.method, line.pathname, header, line.body, cleanup)
    \/ \E ok \in BOOLEAN : ApiGenerateDone(ok)
    \/ ApiTick

(***************************************************************************)
(* API server: the claims                                                  *)
(***************************************************************************)

\* lastResp is what the request handler did with a request (and not the
\* settling of a generate call); its status is 0 while generateFn is awaited.
Answered == "req" \in DOMAIN lastResp

\* The request went through the rate limiter: everything but a CORS preflight.
Limited == Answered /\ lastResp.req.method # "OPTIONS"

\* Every half-open window (t - RateWindow, t] holds at most rateMax granted checks
\* of any one ip.
WindowsWithinLimit ==
    \A ip \in Ips : \A t \in 0..apiNow : GrantedInWindow(ip, t) <= rateMax

\* A request is refused by the limiter exactly when its ip already has rateMax
\* granted checks in the window that ends at the request.
RefusedExactlyAfterLimit ==
    Limited => (lastResp.status = 429 <=> lastResp.req.before >= rateMax)

\* C6 as stated: within any sliding window a single ip is granted at most
\* maxRequests checks, under any interleaving of the ips' checks, and the request
\* after the limit is answered 429 with retryAfterMs > 0.
C6_SlidingWindow ==
    /\ WindowsWithinLimit
    /\ (Answered /\ lastResp.req.before >= rateMax) =>
          (lastResp.status = 429 /\ lastResp.retryAfterMs > 0)

\* C6, amended: within any sliding window a single ip is granted at most
\* maxRequests checks, under any interleaving of the ips' checks; the request after
\* the limit is answered 429 unless it is an OPTIONS preflight, which is answered
\* 204 without a check; the 429 carries retryAfterMs > 0 when maxRequests is at
\* least 1 and retryAfterMs = 0 when maxRequests is 0.
C6_SlidingWindowPositiveLimit ==
    /\ WindowsWithinLimit
    /\ RefusedExactlyAfterLimit
    /\ (Answered /\ ~Limited) => lastResp.status = 204
    /\ (Limited /\ lastResp.status = 429) =>
          IF rateMax >= 1
          THEN lastResp.retryAfterMs > 0 /\ lastResp.retryAfterMs <= RateWindow
          ELSE lastResp.retryAfterMs = 0

\* An ip that used up a positive limit is refused with a positive retryAfterMs
\* while the other ip has a granted check in the same window.
C6_Witness ==
    /\ Limited
    /\ lastResp.status = 429
    /\ rateMax >= 1
    /\ lastResp.req.before = rateMax
    /\ lastResp.retryAfterMs > 0
    /\ \E other \in Ips \ { lastResp.req.ip } : GrantedInWindow(other, apiNow) > 0

\* The request names an endpoint other than /api/health and /api/progress and its
\* Authorization header is not exactly 'Bearer <token>', with a token configured.
Unauthorized ==
    /\ Answered
    /\ token # ""
    /\ lastResp.req.pathname \notin { <<"api", "health">>, <<"api", "progress">> }
    /\ lastResp.req.header # <<"Bearer ", token>>

\* C7 as stated: with a token configured, a request to an endpoint other than
\* /api/health and /api/progress without the exact header is answered 401 and its
\* route handler is never executed.
C7_UnauthorizedIs401 ==
    Unauthorized => (lastResp.status = 401 /\ lastResp.route = "none")

\* C7, amended: with a token configured, a request to an endpoint other than
\* /api/health and /api/progress without the exact header never has its route
\* handler executed; it is answered 204 when it is an OPTIONS preflight, 429 when
\* the rate limiter refuses it, and 401 otherwise.
C7_UnauthorizedNeverRouted ==
    Unauthorized =>
        /\ lastResp.route = "none"
        /\ lastResp.status =
              IF lastResp.req.method = "OPTIONS" THEN 204
              ELSE IF lastResp.req.before >= rateMax THEN 429
              ELSE 401

\* A POST /api/generate with a wrong bearer token, from an ip within its limit, is
\* answered 401 and starts no run.
C7_Witness ==
    /\ Unauthorized
    /\ lastResp.req.method = "POST"
    /\ lastResp.req.pathname = <<"api", "generate">>
    /\ lastResp.req.header = <<"Bearer ", "wrong">>
    /\ lastResp.status = 401
    /\ inflight = 0

\* The request is a GET /api/health without an Authorization header, with a token
\* configured.
HealthNoHeader ==
    /\ Answered
    /\ token # ""
    /\ lastResp.req.method = "GET"
    /\ lastResp.req.pathname = <<"api", "health">>
    /\ lastResp.req.header = <<>>

\* C8 as stated: with a token configured, GET /api/health without an Authorization
\* header returns 200 always, whatever the client sent before.
C8_HealthAlways200 ==
    HealthNoHeader => lastResp.status = 200

\* C8, amended: with a token configured, GET /api/health without an Authorization
\* header is never answered 401: it returns 200 whenever the rate limiter grants
\* the request, and 429 when the client's ip has used up its limit in the window.
C8_HealthNeedsNoToken ==
    HealthNoHeader =>
        lastResp.status = IF lastResp.req.before >= rateMax THEN 429 ELSE 200

\* GET /api/health without a header returns 200 after an earlier request of the
\* same client.
C8_Witness ==
    /\ HealthNoHeader
    /\ lastResp.status = 200
    /\ lastResp.req.before > 0

\* The number of events of the given type broadcast on the progress channel.
Broadcast(type) ==
    LET isType(chunk) == chunk = formatSSE("message", type, "")
    IN  Len(SelectSeq(sent, isType))

\* C11: a run started through POST /api/generate that fails emits an error event on
\* the progress channel, so every start event is followed by exactly one
\* terminating complete or error event: once no run is in flight, the channel has
\* carried as many terminating events as start events.
C11_EveryStartTerminated ==
    inflight = 0 => Broadcast("{type:complete}") + Broadcast("{type:error}") = Broadcast("{type:start}")

(***************************************************************************)
(* Watch mode                                                              *)
(***************************************************************************)

\* Bound: the number of times regenerate passes its generating test.
MaxIterations == 2

\* The file names the watcher reports; "" is a change without a file name.
FileNames == { "p.txt", "q.md", "r.js", "" }

\* What readFileSync(filePath).trim() gives: a prompt, nothing, or an exception
\* (the file is gone by the time the debounce expires).
ReadOutcomes == { "text", "empty", "throws" }

\* How the generate call settles: with HTML, with an Error, or with a rejection
\* whose reason is undefined.
GenerateOutcomes == { "html", "error", "undefined" }

NoTimer == [file |-> "none"]
NoRegen == [called |-> FALSE]

\* filename.endsWith('.txt') || filename.endsWith('.md')
IsPromptFile(filename) == filename \in { "p.txt", "q.md" }

\* A test that lets every call through (mutation of Busy).
BusyNever(flag) == FALSE

\* if (generating) return
Busy(flag) == flag

WatchInit ==
    /\ watching = "off"
    /\ generating = FALSE
    /\ iteration = 0
    /\ timer = NoTimer
    /\ running = 0
    /\ watchLog = <<>>
    /\ lastRegen = NoRegen

\* regenerate(filePath) up to its await: `read` is what reading the file gives,
\* `during` whether the change event behind the call fired while a generation ran.
regenerate(read, during) ==
    LET seen(started) == [called |-> TRUE, during |-> during, before |-> running,
                          started |-> started]
    IN  IF Busy(generating)
        THEN /\ lastRegen' = seen(FALSE)
             /\ UNCHANGED <<generating, iteration, running, watchLog>>
        ELSE /\ iteration < MaxIterations
             /\ iteration' = iteration + 1
             /\ generating' = (read # "empty")
             /\ lastRegen' = seen(read = "text")
             /\ IF read = "text"
                THEN /\ watchLog' = Append(watchLog, "status")
                     /\ running' = running + 1
                ELSE UNCHANGED <<watchLog, running>>

\* watchMode(target) on a directory: the watcher is set up.
WatchDir ==
    /\ watching = "off"
    /\ watching' = "dir"
    /\ UNCHANGED <<generating, iteration, timer, running, watchLog, lastRegen>>
    /\ UNCHANGED notWatch

\* watchMode(target) on a file: the watcher is set up and regenerate(target) is
\* called at once.
WatchFile(read) ==
    /\ watching = "off"
    /\ watching' = "file"
    /\ regenerate(read, FALSE)
    /\ UNCHANGED timer
    /\ UNCHANGED notWatch

\* The watcher's callback: a change of a prompt file that exists restarts the
\* debounce timer.
WatchChange(filename, exists) ==
    /\ watching # "off"
    /\ IF IsPromptFile(filename) /\ exists
       THEN timer' = [file |-> filename, during |-> running > 0]
       ELSE UNCHANGED timer
    /\ lastRegen' = NoRegen
    /\ UNCHANGED <<watching, generating, iteration, running, watchLog>>
    /\ UNCHANGED notWatch

\* The debounce timer expires: regenerate(filePath) is called.
WatchExpire(read) ==
    /\ timer # NoTimer
    /\ timer' = NoTimer
    /\ regenerate(read, timer.during)
    /\ UNCHANGED watching
    /\ UNCHANGED notWatch

\* The generate call settles: regenerate goes on after its await. With a
\* rejection whose reason is undefined, err.message throws in the catch block and
\* neither the error event nor generating = false is reached.
WatchSettle(outcome) ==
    /\ running > 0
    /\ running' = running - 1
    /\ watchLog' = CASE outcome = "html" -> Append(watchLog, "result")
                     [] outcome = "error" -> Append(watchLog, "error")
                     [] OTHER -> watchLog
    /\ generating' = (outcome = "undefined")
    /\ lastRegen' = NoRegen
    /\ UNCHANGED <<watching, iteration, timer>>
    /\ UNCHANGED notWatch

WatchNext ==
    \/ WatchDir
    \/ \E read \in ReadOutcomes : WatchFile(read)
    \/ \E filename \in FileNames, exists \in BOOLEAN : WatchChange(filename, exists)
    \/ \E read \in ReadOutcomes : WatchExpire(read)
    \/ \E outcome \in GenerateOutcomes : WatchSettle(outcome)

\* C12 as stated: in watch mode at most one generation is in flight at any time,
\* and a change event that fires while a generation is running starts no
\* generation, for any timing of file changes and debounce expiries.
C12_ChangeDuringRunIgnored ==
    /\ running <= 1
    /\ (lastRegen.called /\ lastRegen.started) => ~lastRegen.during

\* C12, amended: in watch mode at most one generation is in flight at any time; a
\* call of regenerate made by a debounce expiry while a generation is running
\* starts no generation and is not queued (a change event that fires while a
\* generation is running starts one if its debounce expires after that generation
\* has ended).
C12_OneGenerationInFlight ==
    /\ running <= 1
    /\ running > 0 => generating
    /\ (lastRegen.called /\ lastRegen.before > 0) =>
          (~lastRegen.started /\ timer = NoTimer /\ running = lastRegen.before)

\* A debounce expiry came while a generation was running and started nothing.
C12_Witness ==
    /\ lastRegen.called
    /\ lastRegen.before = 1
    /\ ~lastRegen.started
    /\ running = 1

\* C36: every regenerate invocation that sets the in-flight flag eventually clears it,
\* whatever happens during it (empty prompt file, unreadable or deleted file, generator
\* failure): whenever generating is true, it is false again later.
C36_FlagEventuallyCleared == generating ~> ~generating

(***************************************************************************)
(* Generator router                                                        *)
(***************************************************************************)

\* Bound: the number of calls of route.
MaxRouteCalls == 2

\* Model aliases, as the words they are made of; <<>> is a call without a model.
Aliases ==
    { <<>>, <<"gemini">>, <<"claude", "sonnet">>, <<"gpt", "4o">>, <<"grok", "3">>,
      <<"deepseek", "chat">>, <<"llama", "3">>, <<"my", "deepseek">>,
      <<"opus", "grok">>, <<"custom">> }

\* Pieces of a message content: the markdown fence that opens an html block, the
\* fence that closes it, and white space.
FenceOpen == "[fence html]"
FenceClose == "[fence]"
Blank == "[blank]"

\* What a provider's API answers: an error, or a message content made of pieces.
Responses ==
    { [error |-> TRUE,  content |-> <<>>],
      [error |-> FALSE, content |-> <<>>],
      [error |-> FALSE, content |-> <<"<!DOCTYPE", "<html", "body">>],
      [error |-> FALSE, content |-> <<FenceOpen, "<html", "body", FenceClose>>],
      [error |-> FALSE, content |-> <<Blank, "<!DOCTYPE", "body", Blank>>],
      [error |-> FALSE, content |-> <<"Sorry, no app today">>],
      [error |-> FALSE, content |-> <<FenceOpen, "Sorry, no app today", FenceClose>>] }

\* regex.test(model) for a regex that is an alternation of words
HasWord(model, words) == \E i \in 1..Len(model) : model[i] \in words

\* detectProvider(model)
detectProvider(model) ==
    IF HasWord(model, { "gemini", "flash", "pro-preview" }) THEN "gemini"
    ELSE IF HasWord(model, { "claude", "sonnet", "opus", "haiku" }) THEN "claude"
    ELSE IF HasWord(model, { "gpt", "o3", "o4", "codex" }) THEN "openai"
    ELSE IF HasWord(model, { "grok" }) THEN "grok"
    ELSE IF Len(model) > 0 /\ model[1] = "deepseek" THEN "deepseek"
    ELSE IF HasWord(model, { "llama", "mistral", "mixtral", "qwen", "phi", "gemma",
                             "ollama", "codellama" }) THEN "ollama"
    ELSE "unknown"

\* GENERATORS[provider] || GENERATORS.unknown, as the name of the generator
GeneratorFor(provider) ==
    IF provider \in { "gemini", "claude", "openai", "grok" } THEN provider ELSE "gemini"

\* The clean-up of the generators: a fence at the start and a fence at the end
\* are removed, then the result is trimmed.
StripFences(content) ==
    LET a == IF Len(content) > 0 /\ content[1] = FenceOpen THEN Tail(content) ELSE content
        b == IF Len(a) > 0 /\ a[Len(a)] = FenceClose THEN SubSeq(a, 1, Len(a) - 1) ELSE a
        c == IF Len(b) > 0 /\ b[1] = Blank THEN Tail(b) ELSE b
    IN  IF Len(c) > 0 /\ c[Len(c)] = Blank THEN SubSeq(c, 1, Len(c) - 1) ELSE c

\* html.includes('<html') || html.includes('<!DOCTYPE')
LooksLikeHtml(html) ==
    \E i \in 1..Len(html) : html[i] \in { "<html", "<!DOCTYPE" }

Thrown == [ok |-> FALSE, html |-> <<>>]

\* generate of gemini.js and of openai.js: an error answer, an empty content and
\* an output that does not look like HTML are thrown.
CheckedGenerate(response) ==
    IF response.error \/ response.content = <<>> THEN Thrown
    ELSE IF ~LooksLikeHtml(StripFences(response.content)) THEN Thrown
    ELSE [ok |-> TRUE, html |-> StripFences(response.content)]

\* generate of claude.js, which the router imports: taken to make the same test
\* as the gemini and openai generators.
claudeGenerate(response) == CheckedGenerate(response)

\* generate of grok.js: without a key, or when curl fails, it throws; otherwise the
\* content, or '' for none, is returned with its fences stripped.
grokGenerate(response, hasKey) ==
    IF ~hasKey \/ response.error THEN Thrown
    ELSE [ok |-> TRUE, html |-> StripFences(response.content)]

\* route(prompt, { model }): the provider detected, the generator invoked and what
\* the call gives.
route(model, response, hasKey) ==
    LET m         == IF model = <<>> THEN <<"gemini">> ELSE model
        provider  == detectProvider(m)
        generator == GeneratorFor(provider)
        result    == CASE generator = "grok" -> grokGenerate(response, hasKey)
                       [] generator = "claude" -> claudeGenerate(response)
                       [] OTHER -> CheckedGenerate(response)
    IN  [model |-> m, detected |-> provider, invoked |-> generator,
         ok |-> result.ok, html |-> result.html]

RouterInit ==
    /\ routeCalls = <<>>
    /\ lastRoute = [invoked |-> "none"]

Route(model, response, hasKey) ==
    /\ Len(routeCalls) < MaxRouteCalls
    /\ routeCalls' = Append(routeCalls, route(model, response, hasKey).invoked)
    /\ lastRoute' = route(model, response, hasKey)
    /\ UNCHANGED notRouter

RouterNext ==
    \E model \in Aliases, response \in Responses, hasKey \in BOOLEAN :
        Route(model, response, hasKey)

Routed == lastRoute.invoked # "none"

\* C13: the router never silently switches providers: route invokes only the
\* generator of the provider that detectProvider resolves the alias to, and only
\* aliases that detectProvider does not recognise go to the default provider.
C13_NoSilentSwitch ==
    Routed =>
        IF lastRoute.detected = "unknown"
        THEN lastRoute.invoked = "gemini"
        ELSE lastRoute.invoked = lastRoute.detected

\* C14: the post-processed output of any successful router call contains
\* <!DOCTYPE or <html, whichever provider produced it.
C14_SuccessLooksLikeHtml ==
    (Routed /\ lastRoute.ok) => LooksLikeHtml(lastRoute.html)

(***************************************************************************)
(* Iteration strategies: the validator (lib/rune/validator.js), best-of-N  *)
(* (the modus-forge command), refine (lib/iterate/refiner.js), chain       *)
(* (lib/iterate/chain.js), abTest and fallbackTest (the A/B test module)   *)
(* and evolve (lib/iterate/genetic.js).  One strategy runs at a time; the  *)
(* router is the environment: each of its calls returns a document or      *)
(* throws.                                                                 *)
(***************************************************************************)

\* Bounds: the largest --iterate value, the largest opts.maxRounds of refine, the
\* largest opts.maxIterations and opts.patience of chain, the longest provider
\* list of abTest, the largest population and number of generations of evolve.
MaxN == 3
MaxRounds == 2
MaxChainIterations == 2
MaxPatience == 2
MaxProviders == 4
MaxPopulation == 4
MaxGenerations == 2

\* What validate looks for in the text (validator.js lines 104-155).
AllFindings ==
    { "form", "listener", "storage", "canvas",
      "doctype", "closing", "script", "trycatch", "long",
      "style", "customprops", "transition", "gradient", "media",
      "semantic", "aria", "placeholder", "title", "emoji" }

\* A generated text, by what validate can find in it.
Html(found) == [kind |-> "html", found |-> found]

Empty == Html({})
Minimal == Html({ "doctype", "closing", "title" })
MinimalTwin == Html({ "doctype", "closing", "placeholder" })
Plain == Html({ "semantic", "aria", "emoji" })
Medium ==
    Html({ "form", "listener", "doctype", "closing", "script", "long", "style", "transition",
           "semantic", "title" })
Rich == Html(AllFindings)

\* The documents the router gives in this model.
Documents == { Minimal, MinimalTwin, Plain, Medium, Rich }

\* A call of route that rejects.
Failure == [kind |-> "thrown"]

\* What one call of route can give the strategy that awaits it.
LlmOutcomes == Documents \cup { Failure }

\* bestCode before the first candidate.
NoCode == [kind |-> "null"]

\* if (has...) axis += weight, in hundredths.
Add(found, finding, weight) == IF finding \in found THEN weight ELSE 0

\* Math.min(1, Math.round(x * 10) / 10), from hundredths to tenths.
Clamp(hundredths) ==
    LET tenths == (hundredths + 5) \div 10
    IN  IF tenths > 10 THEN 10 ELSE tenths

\* validate(code): the four axes, in tenths (validator.js lines 98-174).  A value
\* that is not a string, such as the object refine returns, is tested as
\* "[object Object]" and has no length: no finding matches and every axis is 0.
validate(code) ==
    LET found == IF code.kind = "html" THEN code.found ELSE {}
    IN  [ conatus |->
              Clamp(Add(found, "form", 30) + Add(found, "listener", 30)
                    + Add(found, "storage", 20) + Add(found, "canvas", 20)),
          ratio |->
              Clamp(Add(found, "doctype", 20) + Add(found, "closing", 20)
                    + Add(found, "script", 20) + Add(found, "trycatch", 20)
                    + Add(found, "long", 20)),
          laetitia |->
              Clamp(Add(found, "style", 25) + Add(found, "customprops", 20)
                    + Add(found, "transition", 25) + Add(found, "gradient", 15)
                    + Add(found, "media", 15)),
          natura |->
              Clamp(Add(found, "semantic", 25) + Add(found, "aria", 20)
                    + Add(found, "placeholder", 20) + Add(found, "title", 20)
                    + Add(found, "emoji", 15)) ]

\* (conatus + ratio + laetitia + natura) / 4 is computed in double precision, so two
\* reports with the same exact sum can differ in the last bit: 0 + 0.4 + 0 + 0.2 is
\* 0.6000000000000001 while 0 + 0 + 0 + 0.6 is 0.6.  FloatDrift is that last bit for the
\* reports of Documents; every other one of them sums to the nearest double.
FloatDrift(report) ==
    IF report = [conatus |-> 0, ratio |-> 4, laetitia |-> 0, natura |-> 2] THEN 1 ELSE 0

\* The average of the four axes as the code compares it: 400 stands for 1.0, and the
\* last digit is the floating-point drift.
Average(report) ==
    10 * (report.conatus + report.ratio + report.laetitia + report.natura) + FloatDrift(report)

\* The score literals of the code on the scale of Average: 0.7, 0.75, 0.85, 0.9, -1.
Score070 == 280
Score075 == 300
Score085 == 340
Score090 == 360
MinusOne == 0 - 400

\* validate's grade of a report (validator.js line 171).
Grade(report) ==
    LET avg == Average(report)
    IN  IF avg >= 340 THEN "S"
        ELSE IF avg >= 280 THEN "A"
        ELSE IF avg >= 220 THEN "B"
        ELSE IF avg >= 160 THEN "C"
        ELSE "D"

\* opts.name || fallback: an absent option and the number 0 both give the fallback.
OrDefault(opts, name, fallback) ==
    IF name \in DOMAIN opts /\ opts[name] # 0 THEN opts[name] ELSE fallback

Idle == [kind |-> "idle"]
NotDone == [kind |-> "none"]

IterInit ==
    /\ job = Idle
    /\ done = NotDone
    /\ llmInFlight = 0

(***************************************************************************)
(* Best-of-N (the modus-forge command, lines 63-118)                       *)
(***************************************************************************)

\* score > bestScore: a later candidate replaces the best one only when strictly better.
BetterOrEqual(score, best) == score >= best
Better(score, best) == score > best

\* Math.min(parseInt(values.iterate) || 1, 5)
Iterations(iterate) ==
    LET n == IF iterate = 0 THEN 1 ELSE iterate
    IN  IF n < 5 THEN n ELSE 5

\* The command line is parsed and the loop reaches its first await.
BestOfNStart(iterate) ==
    /\ job = Idle
    /\ done = NotDone
    /\ job' = [ kind |-> "bestOfN", iterations |-> Iterations(iterate), i |-> 0,
                bestCode |-> NoCode, bestScore |-> MinusOne, candidates |-> <<>> ]
    /\ done' = NotDone
    /\ llmInFlight' = 1
    /\ UNCHANGED notIter

\* The awaited route call settles: the rest of the loop body, the next call of route
\* or, after the last iteration, the result.  A rejection leaves the loop for the
\* catch of line 115, which exits with status 1.
BestOfNSettle(response) ==
    /\ job.kind = "bestOfN"
    /\ IF response = Failure
       THEN /\ done' = [ kind |-> "bestOfN", threw |-> TRUE, failed |-> 1,
                         iterations |-> job.iterations, candidates |-> job.candidates ]
            /\ job' = Idle
            /\ llmInFlight' = 0
       ELSE LET score == Average(validate(response))
                better == Better(score, job.bestScore)
                next == [ job EXCEPT !.i = job.i + 1,
                                     !.bestCode = IF better THEN response ELSE job.bestCode,
                                     !.bestScore = IF better THEN score ELSE job.bestScore,
                                     !.candidates = Append(job.candidates, response) ]
            IN  IF next.i < next.iterations
                THEN /\ job' = next
                     /\ llmInFlight' = 1
                     /\ UNCHANGED done
                ELSE /\ job' = Idle
                     /\ llmInFlight' = 0
                     /\ done' = [ kind |-> "bestOfN", threw |-> FALSE, failed |-> 0,
                                  iterations |-> job.iterations,
                                  code |-> next.bestCode, score |-> next.bestScore,
                                  candidates |-> next.candidates ]
    /\ UNCHANGED notIter

(***************************************************************************)
(* refine (lib/iterate/refiner.js lines 68-110)                            *)
(***************************************************************************)

\* The number of route calls one call of refine can make: opts.maxRounds, or 2
\* when it is absent or 0.
RefineCalls == IF MaxRounds > 2 THEN MaxRounds ELSE 2

NoOpts == [none |-> TRUE]

\* The opts a caller passes to refine.
RefineOpts ==
    { NoOpts }
        \cup { [maxRounds |-> m] : m \in 0..MaxRounds }
        \cup { [maxRounds |-> m, threshold |-> t] : m \in 1..MaxRounds, t \in { Score070, 400 } }

\* newAvg >= avg: the replacement is kept unless it scores lower.
Accept(newAvg, avg) == newAvg >= avg

RECURSIVE refineLoop(_, _, _, _, _, _)
\* The while loop of refine (lines 78-102) from round `rounds`, and the object it
\* returns; responses[k] is what the k-th call of route gives.  A rejection of route
\* is not caught: refine rejects.
refineLoop(current, avg, rounds, maxRounds, threshold, responses) ==
    IF ~(avg < threshold /\ rounds < maxRounds)
    THEN [threw |-> FALSE, code |-> current, avg |-> avg, rounds |-> rounds]
    ELSE LET refined == responses[rounds + 1]
             newAvg == Average(validate(refined))
         IN  IF refined = Failure
             THEN [threw |-> TRUE, code |-> current, avg |-> avg, rounds |-> rounds + 1]
             ELSE IF Accept(newAvg, avg)
             THEN refineLoop(refined, newAvg, rounds + 1, maxRounds, threshold, responses)
             ELSE [threw |-> FALSE, code |-> current, avg |-> avg, rounds |-> rounds + 1]

\* refine(code, opts)
refine(code, opts, responses) ==
    refineLoop(code, Average(validate(code)), 0, OrDefault(opts, "maxRounds", 2),
               OrDefault(opts, "threshold", Score075), responses)

\* The object refine resolves to: { code, report, rounds, improved }.
RefineResult(r) == [kind |-> "object", code |-> r.code, improved |-> r.rounds > 0]

\* A caller awaits refine(code, opts).
Refine(code, opts, responses) ==
    /\ job = Idle
    /\ done = NotDone
    /\ LET r == refine(code, opts, responses)
       IN  done' = [ kind |-> "refine", threw |-> r.threw, failed |-> IF r.threw THEN 1 ELSE 0,
                     input |-> code, opts |-> opts, code |-> r.code, rounds |-> r.rounds,
                     improved |-> r.rounds > 0 ]
    /\ UNCHANGED <<job, llmInFlight>>
    /\ UNCHANGED notIter

(***************************************************************************)
(* chain (lib/iterate/chain.js lines 34-100)                               *)
(***************************************************************************)

\* const { maxIterations = 3, ... } = opts: the default stands in for an absent option only.
Destructure(opts, name, fallback) ==
    IF name \in DOMAIN opts THEN opts[name] ELSE fallback

ChainOpts ==
    { NoOpts }
        \cup { [maxIterations |-> m, threshold |-> t, patience |-> p] :
                 m \in 0..MaxChainIterations, t \in { Score070, Score085 }, p \in 1..MaxPatience }

\* The second argument chain gives refine: the text identifyIssues returns.  A
\* string has neither maxRounds nor threshold.
IssuesText == [text |-> "issues"]

\* score > bestScore
ImprovedAlways(score, best) == TRUE
Improved(score, best) == score > best

\* chain returns { html: bestHtml, score: bestScore, iterations, history }.
ChainReturn(c) ==
    [ kind |-> "chain", threw |-> FALSE, failed |-> 0, html |-> c.bestHtml,
      score |-> c.bestScore, history |-> c.history, routed |-> c.routed,
      threshold |-> c.threshold ]

ChainThrow(c, routed) ==
    [ kind |-> "chain", threw |-> TRUE, failed |-> 1, history |-> c.history,
      routed |-> routed, threshold |-> c.threshold ]

\* The first two documents the router gave the chain.
FirstTwo(routed) == IF Len(routed) > 2 THEN SubSeq(routed, 1, 2) ELSE routed

\* Whether refine(html, ...) reaches a call of route: its loop is entered.
RefineWillCall(html) == Average(validate(html)) < Score075

\* chain(prompt, opts) up to its first await, the initial route call.
ChainStart(opts) ==
    /\ job = Idle
    /\ done = NotDone
    /\ job' = [ kind |-> "chain", i |-> 0,
                maxIterations |-> Destructure(opts, "maxIterations", 3),
                threshold |-> Destructure(opts, "threshold", Score085),
                patience |-> Destructure(opts, "patience", 2),
                html |-> NoCode, bestHtml |-> NoCode, bestScore |-> 0, noImproveCount |-> 0,
                history |-> <<>>, routed |-> <<>> ]
    /\ done' = NotDone
    /\ llmInFlight' = 1
    /\ UNCHANGED notIter

\* The initial generation settles (lines 52-64), and the loop is entered up to the
\* call of refine, unless the threshold is met or maxIterations is below 1.
ChainInitial(response) ==
    /\ job.kind = "chain"
    /\ job.i = 0
    /\ IF response = Failure
       THEN /\ done' = ChainThrow(job, <<response>>)
            /\ job' = Idle
            /\ llmInFlight' = 0
       ELSE LET score == Average(validate(response))
                next == [ job EXCEPT !.i = 1, !.html = response, !.bestHtml = response,
                                     !.bestScore = score,
                                     !.history = << [iteration |-> 0, score |-> score,
                                                     improved |-> TRUE] >>,
                                     !.routed = <<response>> ]
            IN  IF score >= job.threshold \/ 1 > job.maxIterations
                THEN /\ done' = ChainReturn(next)
                     /\ job' = Idle
                     /\ llmInFlight' = 0
                ELSE /\ job' = next
                     /\ llmInFlight' = IF RefineWillCall(next.html) THEN 1 ELSE 0
                     /\ UNCHANGED done
    /\ UNCHANGED notIter

\* html = await refine(html, issues, { model }) settles in iteration i (lines 71-96):
\* refine takes (code, opts), so the issues text is its opts and the third argument
\* is dropped; what it resolves to, an object, becomes html and is validated.
ChainRefined(responses) ==
    /\ job.kind = "chain"
    /\ job.i >= 1
    /\ LET r == refine(job.html, IssuesText, responses)
           routed == FirstTwo(job.routed \o SubSeq(responses, 1, r.rounds))
           html == RefineResult(r)
           score == Average(validate(html))
           improved == Improved(score, job.bestScore)
           next == [ job EXCEPT !.i = job.i + 1, !.html = html,
                                !.bestHtml = IF improved THEN html ELSE job.bestHtml,
                                !.bestScore = IF improved THEN score ELSE job.bestScore,
                                !.noImproveCount = IF improved THEN 0 ELSE job.noImproveCount + 1,
                                !.history = Append(job.history,
                                                   [iteration |-> job.i, score |-> score,
                                                    improved |-> improved]),
                                !.routed = routed ]
       IN  IF r.threw
           THEN /\ done' = ChainThrow(job, routed)
                /\ job' = Idle
                /\ llmInFlight' = 0
           ELSE IF \/ next.bestScore >= next.threshold
                   \/ next.noImproveCount >= next.patience
                   \/ next.i > next.maxIterations
           THEN /\ done' = ChainReturn(next)
                /\ job' = Idle
                /\ llmInFlight' = 0
           ELSE /\ job' = next
                /\ llmInFlight' = IF RefineWillCall(next.html) THEN 1 ELSE 0
                /\ UNCHANGED done
    /\ UNCHANGED notIter

(***************************************************************************)
(* fallbackTest (the A/B test module, lines 245-264)                       *)
(***************************************************************************)

\* withTotal(score): the report with its total.
withTotal(report) == [report |-> report, total |-> Average(report)]

\* A report that validate returned and withTotal has not seen: it has no total.
withoutTotal(report) == [report |-> report]

\* a.total > b.total; a comparison with undefined is false.
TotalGreater(a, b) ==
    IF "total" \in DOMAIN a /\ "total" \in DOMAIN b THEN a.total > b.total ELSE FALSE

\* options.threshold ?? 0.7: the threshold in effect, 0.7 when absent; 0 stays 0.
FallbackThresholds == { Score070, 0 }

\* fallbackTest(prompt, options): responses[1] is what the primary provider gives,
\* responses[2] what the fallback provider gives if it is asked.
fallbackTest(threshold, responses) ==
    LET code == responses[1]
        score == withTotal(validate(code))
        code2 == responses[2]
        score2 == withoutTotal(validate(code2))
    IN  IF code = Failure
        THEN [threw |-> TRUE, calls |-> 1]
        ELSE IF score.total >= threshold
        THEN [threw |-> FALSE, calls |-> 1, provider |-> "primary", code |-> code]
        ELSE IF code2 = Failure
        THEN [threw |-> TRUE, calls |-> 2]
        ELSE IF TotalGreater(score2, score)
        THEN [threw |-> FALSE, calls |-> 2, provider |-> "fallback", code |-> code2]
        ELSE [threw |-> FALSE, calls |-> 2, provider |-> "primary", code |-> code]

\* A caller awaits fallbackTest(prompt, options).
FallbackTest(threshold, responses) ==
    /\ job = Idle
    /\ done = NotDone
    /\ LET r == fallbackTest(threshold, responses)
       IN  done' = [ kind |-> "fallbackTest", threw |-> r.threw, threshold |-> threshold,
                     failed |-> IF r.threw THEN 1 ELSE 0,
                     routed |-> SubSeq(responses, 1, r.calls), result |-> r ]
    /\ UNCHANGED <<job, llmInFlight>>
    /\ UNCHANGED notIter

(***************************************************************************)
(* abTest (the A/B test module, lines 146-173)                             *)
(***************************************************************************)

\* A route call that has not settled.
Pending == [kind |-> "pending"]

\* options.providers: absent, or a list of 0..MaxProviders providers, by its length.
AbTestOpts == { NoOpts } \cup { [providers |-> n] : n \in 0..MaxProviders }

\* The providers a caller lists, in order; a list of n providers is the first n.
ProviderList ==
    << <<"gemini">>, <<"claude">>, <<"gpt">>, <<"grok">>, <<"gemini", "pro">>, <<"opus">> >>

\* The generator that route(prompt, opts) invokes: route looks at opts.model only.
GeneratorInvoked(opts) ==
    route(IF "model" \in DOMAIN opts THEN opts.model ELSE <<>>,
          [error |-> TRUE, content |-> <<>>], TRUE).invoked

RECURSIVE Fulfilled(_, _)
\* variants.filter(v => v.status === 'fulfilled').map(v => v.value), in provider order:
\* { provider, code, score }, and the generator that route invoked for
\* route(enhancedPrompt, { provider, context }).
Fulfilled(settled, i) ==
    IF i > Len(settled) THEN <<>>
    ELSE IF settled[i] = Failure THEN Fulfilled(settled, i + 1)
    ELSE << [ provider |-> i, code |-> settled[i], total |-> Average(validate(settled[i])),
              generatedBy |-> GeneratorInvoked([provider |-> ProviderList[i]]) ] >>
             \o Fulfilled(settled, i + 1)

RECURSIVE InsertByTotal(_, _)
\* One step of the stable sort on (a, b) => b.total - a.total: x goes after every
\* element whose total is at least its own.
InsertByTotal(sorted, x) ==
    IF sorted = <<>> THEN <<x>>
    ELSE IF sorted[Len(sorted)].total >= x.total THEN Append(sorted, x)
    ELSE Append(InsertByTotal(SubSeq(sorted, 1, Len(sorted) - 1), x), sorted[Len(sorted)])

RECURSIVE SortByTotal(_, _)
SortByTotal(list, n) ==
    IF n = 0 THEN <<>>
    ELSE InsertByTotal(SortByTotal(list, n - 1), list[n])

RECURSIVE CountFailures(_, _)
CountFailures(settled, i) ==
    IF i > Len(settled) THEN 0
    ELSE (IF settled[i] = Failure THEN 1 ELSE 0) + CountFailures(settled, i + 1)

\* What abTest does once Promise.allSettled resolves (lines 157-172).
AbTestReturn(settled) ==
    LET results == Fulfilled(settled, 1)
        sorted == SortByTotal(results, Len(results))
    IN  IF Len(results) = 0
        THEN [ kind |-> "abTest", threw |-> TRUE, failed |-> CountFailures(settled, 1),
               providers |-> Len(settled) ]
        ELSE [ kind |-> "abTest", threw |-> FALSE, failed |-> CountFailures(settled, 1),
               providers |-> Len(settled), winner |-> sorted[1], variants |-> sorted ]

\* How many of the parallel calls a strategy starts at once: providers.map and
\* population.map call route for every element before any call settles.
StartAll(n) == n

\* abTest(enhancedPrompt, options) up to its await: one route call per provider.
AbTestStart(opts) ==
    /\ job = Idle
    /\ done = NotDone
    /\ LET n == Destructure(opts, "providers", 3)
       IN  IF n = 0
           THEN /\ done' = AbTestReturn(<<>>)
                /\ UNCHANGED <<job, llmInFlight>>
           ELSE /\ job' = [kind |-> "abTest", settled |-> [i \in 1..n |-> Pending]]
                /\ done' = NotDone
                /\ llmInFlight' = StartAll(n)
    /\ UNCHANGED notIter

\* The route call for provider i settles; the last one to settle resolves allSettled.
AbTestSettle(i, response) ==
    /\ job.kind = "abTest"
    /\ i \in DOMAIN job.settled
    /\ job.settled[i] = Pending
    /\ LET settled == [job.settled EXCEPT ![i] = response]
       IN  IF \E k \in DOMAIN settled : settled[k] = Pending
           THEN /\ job' = [job EXCEPT !.settled = settled]
                /\ UNCHANGED done
           ELSE /\ job' = Idle
                /\ done' = AbTestReturn(settled)
    /\ llmInFlight' = llmInFlight - 1
    /\ UNCHANGED notIter

(***************************************************************************)
(* evolve (lib/iterate/genetic.js lines 94-184)                            *)
(***************************************************************************)

\* What the route calls of evaluate give in this model.
EvolveOutcomes == { Minimal, Medium, Rich, Failure }

\* opts of evolve: populationSize, generations and eliteCount (default 2).
EvolveOpts ==
    { [populationSize |-> p, generations |-> g] : p \in 1..MaxPopulation, g \in 1..MaxGenerations }
        \cup { [populationSize |-> p, generations |-> 1, eliteCount |-> c] :
                   p \in 1..MaxPopulation, c \in 0..1 }

\* evaluate(ind, model): the individual with its code and fitness; a rejection of
\* route is caught and gives the empty code with fitness 0 (lines 94-109).
evaluate(response) ==
    IF response = Failure THEN [code |-> Empty, total |-> 0, failed |-> TRUE]
    ELSE [code |-> response, total |-> Average(validate(response)), failed |-> FALSE]

RECURSIVE EvaluateAll(_, _)
EvaluateAll(settled, i) ==
    IF i > Len(settled) THEN <<>>
    ELSE <<evaluate(settled[i])>> \o EvaluateAll(settled, i + 1)

\* An individual of the next generation before it is evaluated: no fitness, which
\* sorts as 0.
Unevaluated == [code |-> NoCode, total |-> 0, failed |-> FALSE]

Smaller(a, b) == IF a < b THEN a ELSE b

\* [...elite, ...offspring] (lines 163-173): the top eliteCount individuals and
\* populationSize - eliteCount children.
NextGeneration(sorted, populationSize, eliteCount) ==
    LET kept == Smaller(Len(sorted), eliteCount)
        children == IF populationSize > eliteCount THEN populationSize - eliteCount ELSE 0
    IN  SubSeq(sorted, 1, kept) \o [i \in 1..children |-> Unevaluated]

\* population.slice(0, eliteCount): the individuals carried into the next generation
\* with their code and fitness.
Elite(sorted, eliteCount) == SubSeq(sorted, 1, Smaller(Len(sorted), eliteCount))

\* evolve(basePrompt, opts) up to its first await: Promise.all over the population.
EvolveStart(opts) ==
    /\ job = Idle
    /\ done = NotDone
    /\ LET n == Destructure(opts, "populationSize", 6)
       IN  /\ job' = [ kind |-> "evolve", gen |-> 0,
                       populationSize |-> n,
                       generations |-> Destructure(opts, "generations", 3),
                       eliteCount |-> Destructure(opts, "eliteCount", 2),
                       threshold |-> Destructure(opts, "threshold", Score090),
                       settled |-> [i \in 1..n |-> Pending],
                       history |-> <<>>, totalEvaluations |-> 0, failed |-> 0,
                       elite |-> <<>>, carried |-> <<>>, evaluated |-> <<>> ]
           /\ llmInFlight' = StartAll(n)
    /\ done' = NotDone
    /\ UNCHANGED notIter

\* evolve returns { best: population[0], history, totalEvaluations }.
EvolveReturn(e, population) ==
    LET final == SortByTotal(population, Len(population))
    IN  [ kind |-> "evolve", threw |-> FALSE, failed |-> e.failed, best |-> final[1],
          history |-> e.history, totalEvaluations |-> e.totalEvaluations,
          populationSize |-> e.populationSize, generations |-> e.generations,
          eliteCount |-> e.eliteCount, threshold |-> e.threshold,
          carried |-> e.carried, evaluated |-> e.evaluated ]

\* The route call of individual i settles; when it is the last one of the generation,
\* the rest of the loop body (lines 150-173) and either the next generation's calls
\* or the result.
EvolveSettle(i, response) ==
    /\ job.kind = "evolve"
    /\ i \in DOMAIN job.settled
    /\ job.settled[i] = Pending
    /\ LET settled == [job.settled EXCEPT ![i] = response]
           population == EvaluateAll(settled, 1)
           sorted == SortByTotal(population, Len(population))
           bestFitness == sorted[1].total
           e == [ job EXCEPT !.gen = job.gen + 1,
                             !.history = Append(job.history, bestFitness),
                             !.totalEvaluations = job.totalEvaluations + Len(population),
                             !.failed = job.failed + CountFailures(settled, 1),
                             !.carried = job.elite,
                             !.evaluated = population,
                             !.elite = Elite(sorted, job.eliteCount) ]
           next == NextGeneration(sorted, job.populationSize, job.eliteCount)
       IN  IF \E k \in DOMAIN settled : settled[k] = Pending
           THEN /\ job' = [job EXCEPT !.settled = settled]
                /\ llmInFlight' = llmInFlight - 1
                /\ UNCHANGED done
           ELSE IF bestFitness >= job.threshold
           THEN /\ job' = Idle
                /\ llmInFlight' = 0
                /\ done' = EvolveReturn(e, sorted)
           ELSE IF e.gen < e.generations
           THEN /\ job' = [e EXCEPT !.settled = [k \in 1..Len(next) |-> Pending],
                                     !.carried = <<>>, !.evaluated = <<>>]
                /\ llmInFlight' = StartAll(Len(next))
                /\ UNCHANGED done
           ELSE /\ job' = Idle
                /\ llmInFlight' = 0
                /\ done' = EvolveReturn(e, next)
    /\ UNCHANGED notIter

\* The caller takes the result of the strategy that finished.
IterTake ==
    /\ job = Idle
    /\ done # NotDone
    /\ done' = NotDone
    /\ UNCHANGED <<job, llmInFlight>>
    /\ UNCHANGED notIter

\* One step of a strategy that awaits one route call at a time.
SequentialNext ==
    \/ IterTake
    \/ \E iterate \in 0..MaxN : BestOfNStart(iterate)
    \/ \E response \in LlmOutcomes : BestOfNSettle(response)
    \/ \E code \in Documents, opts \in RefineOpts, responses \in [1..RefineCalls -> LlmOutcomes] :
          Refine(code, opts, responses)
    \/ \E opts \in ChainOpts : ChainStart(opts)
    \/ \E response \in LlmOutcomes : ChainInitial(response)
    \/ \E responses \in [1..RefineCalls -> LlmOutcomes] : ChainRefined(responses)
    \/ \E threshold \in FallbackThresholds, responses \in [1..2 -> LlmOutcomes] :
          FallbackTest(threshold, responses)

\* One step of a strategy that awaits several route calls at once.
ParallelNext ==
    \/ \E opts \in AbTestOpts : AbTestStart(opts)
    \/ \E i \in 1..MaxProviders, response \in LlmOutcomes : AbTestSettle(i, response)
    \/ \E opts \in EvolveOpts : EvolveStart(opts)
    \/ \E i \in 1..MaxPopulation, response \in EvolveOutcomes : EvolveSettle(i, response)

\* One step of one strategy.
IterNext == SequentialNext \/ ParallelNext

(***************************************************************************)
(* Claims about the iteration strategies                                   *)
(***************************************************************************)

\* A strategy has ended after exactly one of its route calls failed.
SingleFailure == done # NotDone /\ done.failed = 1

\* When the call failed the strategy had something else to go on with: a further
\* or earlier candidate, another provider, or the HTML it was given.
OtherCandidate ==
    CASE done.kind = "bestOfN" -> done.iterations >= 2
      [] done.kind = "refine" -> TRUE
      [] done.kind = "chain" -> Len(done.history) >= 1
      [] done.kind = "fallbackTest" -> TRUE
      [] done.kind = "abTest" -> done.providers >= 2
      [] done.kind = "evolve" -> TRUE

\* C15: every iteration strategy treats a single failed LLM call as a candidate that
\* scores zero and proceeds: one failing generation never makes the strategy itself
\* fail while another candidate or the previous HTML is available.
C15_SingleFailureTolerated ==
    (SingleFailure /\ OtherCandidate) => ~done.threw

\* C16: best-of-N, A/B duel and genetic evaluation never have more LLM calls in
\* flight than the semaphore's limit (default 3), for any number of providers or
\* population size.
C16_ParallelCallsBounded ==
    job.kind \in { "bestOfN", "abTest", "evolve" } => llmInFlight <= 3

\* refine has returned (it has not rejected).
RefineReturned == done.kind = "refine" /\ ~done.threw

\* The maxRounds the caller asked for; 2 when the caller gave none.
RequestedRounds(opts) == IF "maxRounds" \in DOMAIN opts THEN opts.maxRounds ELSE 2

\* C17: refine never returns HTML worse than its input: for every input HTML and
\* every sequence of LLM outputs the total of the returned HTML is at least the total
\* of the input HTML, and refine performs at most maxRounds generations.
C17_RefineNeverWorse ==
    RefineReturned =>
        /\ Average(validate(done.code)) >= Average(validate(done.input))
        /\ done.rounds <= RequestedRounds(done.opts)

\* chain has returned (it has not rejected).
ChainReturned == done.kind = "chain" /\ ~done.threw

\* C18: the score chain returns is at least the score of its first generation
\* (IT-0), whatever the refinement rounds produce.
C18_FinalAtLeastInitial ==
    ChainReturned => done.score >= done.history[1].score

\* chain returned after a refinement round that scored below the first generation.
C18_Witness ==
    /\ ChainReturned
    /\ Len(done.history) >= 2
    /\ done.history[2].score < done.history[1].score
    /\ done.history[1].score > 0

\* C19: when the router returns a minimal (grade D) document first and a feature-rich
\* document second, a chain with threshold 0.7 returns the second document and records
\* exactly two history entries, IT-0 and IT-1, the latter with improved = TRUE.
C19_RefinementScenario ==
    ( /\ ChainReturned
      /\ done.threshold = Score070
      /\ Grade(validate(Minimal)) = "D"
      /\ Len(done.routed) >= 2
      /\ done.routed[1] = Minimal
      /\ done.routed[2] = Rich )
        => /\ done.html = Rich
           /\ Len(done.history) = 2
           /\ done.history[1].iteration = 0
           /\ done.history[2].iteration = 1
           /\ done.history[2].improved

\* best-of-N has returned (no call of route rejected).
BestOfNReturned == done.kind = "bestOfN" /\ ~done.threw

\* The total of the k-th generated candidate.
CandidateTotal(k) == Average(validate(done.candidates[k]))

\* C20: best-of-N returns the candidate whose total is the maximum over all N
\* generated candidates, and of several candidates that tie for the maximum the
\* earliest generated one.
C20_BestOfNMaxEarliest ==
    BestOfNReturned =>
        /\ Len(done.candidates) = done.iterations
        /\ \E k \in 1..Len(done.candidates) :
              /\ done.code = done.candidates[k]
              /\ done.score = CandidateTotal(k)
              /\ \A j \in 1..Len(done.candidates) : CandidateTotal(j) <= CandidateTotal(k)
              /\ \A j \in 1..(k - 1) : CandidateTotal(j) < CandidateTotal(k)

\* best-of-N returned from three candidates: a weaker one first, then two different
\* documents that tie for the maximum.
C20_Witness ==
    /\ BestOfNReturned
    /\ Len(done.candidates) = 3
    /\ CandidateTotal(1) < CandidateTotal(2)
    /\ CandidateTotal(2) = CandidateTotal(3)
    /\ done.candidates[2] # done.candidates[3]
    /\ done.code = done.candidates[2]

\* abTest has ended.
AbTestEnded == done.kind = "abTest"

\* The generator that belongs to the i-th listed provider.
GeneratorOfProvider(i) == GeneratorFor(detectProvider(ProviderList[i]))

\* C21: abTest returns as winner the provider whose generated HTML scored highest,
\* with variants holding one entry per provider that succeeded, sorted by total
\* descending; providers that failed are omitted and the call fails only if all
\* providers fail.
C21_AbTestWinner ==
    AbTestEnded =>
        /\ done.threw <=> done.failed = done.providers
        /\ ~done.threw =>
              /\ Len(done.variants) = done.providers - done.failed
              /\ done.winner = done.variants[1]
              /\ \A k \in 1..Len(done.variants) :
                    /\ done.winner.total >= done.variants[k].total
                    /\ k > 1 => done.variants[k - 1].total >= done.variants[k].total
                    /\ done.variants[k].generatedBy = GeneratorOfProvider(done.variants[k].provider)

\* fallbackTest has ended.
FallbackEnded == done.kind = "fallbackTest"

\* The total of the k-th document the router gave fallbackTest.
RoutedTotal(k) == Average(validate(done.routed[k]))

C23_PrimaryThrowsFallbackReturned ==
    (FallbackEnded /\ done.routed[1] = Failure) =>
        /\ ~done.threw
        /\ done.result.provider = "fallback"

\* evolve has returned.
EvolveEnded == done.kind = "evolve"

\* C33: in evolve, each generation keeps its top eliteCount individuals unchanged into
\* the next generation (same prompt, same html, same fitness): the next generation's
\* evaluation does not alter an elite's fitness, and evolution stops as soon as a
\* generation's best total is >= threshold.
C33_ElitesUnchanged ==
    EvolveEnded =>
        /\ \A k \in 1..Len(done.carried) : done.evaluated[k] = done.carried[k]
        /\ \A g \in 1..(Len(done.history) - 1) : done.history[g] < done.threshold

\* C40: for every populationSize, generations and eliteCount, the individual that evolve
\* returns as best has been evaluated (it carries html and fitness) and its fitness
\* total is the highest among the individuals of the last evaluated generation, and
\* totalEvaluations is at most populationSize x generations.
C40_BestEvaluatedAndHighest ==
    EvolveEnded =>
        /\ \E k \in 1..Len(done.evaluated) : done.best = done.evaluated[k]
        /\ \A k \in 1..Len(done.evaluated) : done.best.total >= done.evaluated[k].total
        /\ done.totalEvaluations <= done.populationSize * done.generations

(***************************************************************************)
(* Plugin registry                                                         *)
(***************************************************************************)

\* Bound: total number of handler registrations in one behaviour of the registry.
MaxPluginRegs == 5

\* The modules found in plugin directories. file: the directory entry; form: a .js
\* file, a directory with index.js, a directory without one, or another file;
\* import: what `await import(modulePath)` does; name: plugin.name as tokens (<<>>
\* when the module declares none); hooks: Object.entries(plugin.hooks), <<>> when
\* there are none; init/destroy: "none" when not a function, else what the call
\* does; commands: the keys of plugin.commands, <<>> when it has none.
ModP ==
    [file |-> "p.js", form |-> "file", import |-> "ok", name |-> <<"p">>, priority |-> 10,
     hooks |-> << <<"beforeGenerate", "void">>, <<"onError", "void">> >>,
     init |-> "ok", destroy |-> "ok", commands |-> <<"deploy", "status">>]

ModPX ==
    [file |-> "px", form |-> "dir", import |-> "ok", name |-> <<"p", ":", "x">>, priority |-> 5,
     hooks |-> << <<"onError", "void">> >>,
     init |-> "none", destroy |-> "none", commands |-> <<"deploy">>]

ModQ ==
    [file |-> "q.js", form |-> "file", import |-> "ok", name |-> <<"q">>, priority |-> 10,
     hooks |-> << <<"beforeGenerate", "void">> >>,
     init |-> "ok", destroy |-> "throwError", commands |-> <<"status">>]

ModBroken ==
    [file |-> "broken.js", form |-> "file", import |-> "throwError", name |-> <<>>, priority |-> 10,
     hooks |-> <<>>, init |-> "none", destroy |-> "none", commands |-> <<>>]

ModNoName ==
    [file |-> "noname.js", form |-> "file", import |-> "ok", name |-> <<>>, priority |-> 10,
     hooks |-> <<>>, init |-> "ok", destroy |-> "none", commands |-> <<>>]

ModInitFails ==
    [file |-> "initfails.js", form |-> "file", import |-> "ok", name |-> <<"f">>, priority |-> 10,
     hooks |-> << <<"onError", "void">> >>,
     init |-> "throwError", destroy |-> "ok", commands |-> <<"deploy">>]

ModRejects ==
    [file |-> "rejects.js", form |-> "file", import |-> "ok", name |-> <<"r">>, priority |-> 10,
     hooks |-> <<>>, init |-> "throwNullish", destroy |-> "none", commands |-> <<>>]

ModBadHook ==
    [file |-> "badhook", form |-> "dir", import |-> "ok", name |-> <<"b">>, priority |-> 10,
     hooks |-> << <<"beforeGenerate", "void">>, <<"invalidHook", "void">> >>,
     init |-> "ok", destroy |-> "none", commands |-> <<>>]

Readme ==
    [file |-> "README.md", form |-> "other", import |-> "ok", name |-> <<>>, priority |-> 10,
     hooks |-> <<>>, init |-> "none", destroy |-> "none", commands |-> <<>>]

EmptyDir ==
    [file |-> "drafts", form |-> "dirNoIndex", import |-> "ok", name |-> <<>>, priority |-> 10,
     hooks |-> <<>>, init |-> "none", destroy |-> "none", commands |-> <<>>]

\* The directories discover is called on: readdirSync(dir) in its order, and
\* whether the directory exists.
DirInputs ==
    { [exists |-> TRUE,  entries |-> <<ModP, Readme, ModPX>>],
      [exists |-> TRUE,  entries |-> <<ModBroken, ModNoName, EmptyDir, ModInitFails, ModQ>>],
      [exists |-> TRUE,  entries |-> <<ModRejects, ModQ>>],
      [exists |-> TRUE,  entries |-> <<ModBadHook, ModP>>],
      [exists |-> FALSE, entries |-> <<>>] }

\* The names enable and disable are called with (one is of no plugin).
PluginNameInputs == { <<"p">>, <<"p", ":", "x">>, <<"q">>, <<"f">>, <<"nobody">> }

\* The names unregisterPlugin of the hook bus is called with directly.
UnregisterInputs == { <<"p">>, <<"q">> }

\* Calls of on() made next to the plugins' registrations: hook name, handler, priority.
PluginOnInputs ==
    { <<"beforeGenerate", [name |-> <<"a">>, fn |-> "void"], 10>>,
      <<"onError", [name |-> <<"p", ":", "custom">>, fn |-> "void"], 5>>,
      <<"invalidHook", [name |-> <<"a">>, fn |-> "void"], 10>> }

\* Who registered a handler that was registered with on() directly.
Direct == <<"on()">>

NoCall == [fn |-> "none"]

NoPluginOp == [op |-> "none"]

PluginInit ==
    /\ registry = <<>>
    /\ owner = <<>>
    /\ pending = NoCall
    /\ lastPlugin = NoPluginOp

RECURSIVE IndexOfName(_, _, _)
\* The position of key `name` in the registry Map, 0 when absent.
IndexOfName(reg, name, i) ==
    IF i > Len(reg) THEN 0
    ELSE IF reg[i].name = name THEN i
    ELSE IndexOfName(reg, name, i + 1)

\* registry.set(name, entry): a new key goes last, an existing key keeps its place.
RegistrySet(reg, entry) ==
    LET i == IndexOfName(reg, entry.name, 1)
    IN  IF i = 0 THEN Append(reg, entry) ELSE [reg EXCEPT ![i] = entry]

\* entry.enabled = value, for the entry of `name`.
SetEnabled(reg, name, value) ==
    [i \in 1..Len(reg) |->
        IF reg[i].name = name THEN [reg[i] EXCEPT !.enabled = value] ELSE reg[i]]

\* Whether the bus holds, for every hook the plugin declares, the handler
\* registerPlugin names `${name}:${hookName}`; and whether it holds none of them.
AllRegistered(h, plugin) ==
    \A i \in 1..Len(plugin.hooks) :
        LET hookName == plugin.hooks[i][1]
        IN  /\ hookName \in DOMAIN h
            /\ FindIndex(h[hookName], plugin.name \o <<":", hookName>>, 1) >= 1

NoneRegistered(h, plugin) ==
    \A i \in 1..Len(plugin.hooks) :
        LET hookName == plugin.hooks[i][1]
        IN  hookName \in DOMAIN h =>
               FindIndex(h[hookName], plugin.name \o <<":", hookName>>, 1) = 0

\* The owners of n new registrations by `who`.
Owned(own, n, who) == own \o [k \in 1..n |-> who]

\* enable(name) up to its await of plugin.init(): "threw" (not found, or
\* registerPlugin threw), "returned" (already enabled), "enabled" (no init to
\* await: entry.enabled = true), or "init" (init has been called and is awaited).
enableToInit(reg, h, seq, name) ==
    LET i == IndexOfName(reg, name, 1)
    IN  IF i = 0 THEN [h |-> h, n |-> 0, outcome |-> "threw"]
        ELSE IF reg[i].enabled THEN [h |-> h, n |-> 0, outcome |-> "returned"]
        ELSE LET plugin == reg[i].module
                 res    == registerPlugin(h, plugin, seq)
             IN  [h |-> res.h, n |-> res.n,
                  outcome |-> IF res.threw THEN "threw"
                              ELSE IF plugin.init = "none" THEN "enabled"
                              ELSE "init"]

\* The hook bus of disable(name) when it comes to plugin.destroy(), kept as it is
\* (mutation of HooksAtDestroy).
HooksKeptAtDestroy(h, name) == h

\* The hook bus of disable(name) when it comes to plugin.destroy().
HooksAtDestroy(h, name) == unregisterPlugin(h, name)

\* disable(name) up to its await of plugin.destroy(): "threw" (not found),
\* "returned" (not enabled), "disabled" (no destroy to await), or "destroy".
disableToDestroy(reg, h, name) ==
    LET i == IndexOfName(reg, name, 1)
    IN  IF i = 0 THEN [h |-> h, outcome |-> "threw"]
        ELSE IF ~reg[i].enabled THEN [h |-> h, outcome |-> "returned"]
        ELSE [h |-> HooksAtDestroy(h, reg[i].module.name),
              outcome |-> IF reg[i].module.destroy = "none" THEN "disabled" ELSE "destroy"]

\* The catch block of discover for the directory entry e: the result
\* {name: entry, version: '?', status: 'error: ' + err.message}; reading
\* err.message of a nullish err throws out of the catch block and discover rejects.
Caught(d, e, thrown) ==
    IF thrown = "throwNullish"
    THEN [d EXCEPT !.aborted = TRUE]
    ELSE [d EXCEPT !.results = Append(@, [file |-> e.file, name |-> <<e.file>>,
                                          status |-> "error"])]

Loaded(e) == [file |-> e.file, name |-> e.name, status |-> "loaded"]

\* The try block of discover for one module (lines 67-93).
LoadEntry(d, e, autoEnable) ==
    IF e.import # "ok" THEN Caught(d, e, e.import)
    ELSE IF e.name = <<>>
    THEN [d EXCEPT !.results = Append(@, [file |-> e.file, name |-> <<e.file>>,
                                          status |-> "error: no name"])]
    ELSE LET set == RegistrySet(d.reg, [name |-> e.name, module |-> e, enabled |-> FALSE])
             en  == enableToInit(set, d.h, d.seq, e.name)
             after == [d EXCEPT !.reg = set, !.h = en.h, !.seq = @ + en.n,
                                !.own = Owned(@, en.n, e.name)]
             ok  == [after EXCEPT !.reg = SetEnabled(@, e.name, TRUE),
                                  !.results = Append(@, Loaded(e))]
         IN  IF ~autoEnable
             THEN [d EXCEPT !.reg = set, !.results = Append(@, Loaded(e))]
             ELSE CASE en.outcome = "threw"   -> Caught(after, e, "throwError")
                    [] en.outcome = "enabled" -> ok
                    [] OTHER -> IF e.init = "ok" THEN ok ELSE Caught(after, e, e.init)

RECURSIVE DiscoverFrom(_, _, _, _)
\* The loop of discover over readdirSync(dir), from entry i.
DiscoverFrom(d, entries, i, autoEnable) ==
    IF i > Len(entries) \/ d.aborted THEN d
    ELSE IF entries[i].form \in { "other", "dirNoIndex" }
         THEN DiscoverFrom(d, entries, i + 1, autoEnable)
         ELSE DiscoverFrom(LoadEntry(d, entries[i], autoEnable), entries, i + 1, autoEnable)

\* discover({dir, autoEnable}): a missing directory is created and [] returned.
discover(reg, h, seq, own, dir, autoEnable) ==
    LET d0 == [reg |-> reg, h |-> h, seq |-> seq, own |-> own,
               results |-> <<>>, aborted |-> FALSE]
    IN  IF ~dir.exists THEN d0 ELSE DiscoverFrom(d0, dir.entries, 1, autoEnable)

Range(s) == { s[i] : i \in 1..Len(s) }

\* for (const [cmd, handler] of Object.entries(entry.module.commands))
\*     commands[cmd] = { ...handler, plugin: name }
AssignCommands(commands, entry) ==
    [cmd \in DOMAIN commands \cup Range(entry.module.commands) |->
        IF cmd \in Range(entry.module.commands)
        THEN [handler |-> entry.module.file, plugin |-> entry.name]
        ELSE commands[cmd]]

RECURSIVE CommandsFrom(_, _, _)
\* The loop of getCommands over the registry, in insertion order.
CommandsFrom(reg, i, commands) ==
    IF i > Len(reg) THEN commands
    ELSE IF ~reg[i].enabled \/ reg[i].module.commands = <<>>
         THEN CommandsFrom(reg, i + 1, commands)
         ELSE CommandsFrom(reg, i + 1, AssignCommands(commands, reg[i]))

getCommands(reg) == CommandsFrom(reg, 1, << >>)

RECURSIVE HookCount(_, _)
\* The number of hooks the modules of a directory declare, from entry i.
HookCount(entries, i) ==
    IF i > Len(entries) THEN 0
    ELSE Len(entries[i].hooks) + HookCount(entries, i + 1)

\* The module registered under `name`, Readme (which declares nothing) if none.
ModuleOf(reg, name) ==
    LET i == IndexOfName(reg, name, 1)
    IN  IF i = 0 THEN Readme ELSE reg[i].module

\* await discover({dir, autoEnable}): the plugins are discovered once, into the empty
\* registry, and the caller awaits discover before using the registry.
Discover(dir, autoEnable) ==
    /\ registry = <<>>
    /\ pending = NoCall
    /\ regCount + HookCount(dir.entries, 1) <= MaxPluginRegs
    /\ LET d == discover(registry, hooks, regCount, owner, dir, autoEnable)
       IN  /\ registry' = d.reg
           /\ hooks' = d.h
           /\ regCount' = d.seq
           /\ owner' = d.own
           /\ lastPlugin' = [op |-> "discover", dir |-> dir, autoEnable |-> autoEnable,
                             results |-> d.results, aborted |-> d.aborted]
    /\ UNCHANGED pending
    /\ UNCHANGED notPlugin

\* enable(name), up to its await of init or to its end.
EnableStart(name) ==
    /\ pending = NoCall
    /\ regCount + Len(ModuleOf(registry, name).hooks) <= MaxPluginRegs
    /\ LET en     == enableToInit(registry, hooks, regCount, name)
           plugin == ModuleOf(registry, name)
       IN  /\ hooks' = en.h
           /\ regCount' = regCount + en.n
           /\ owner' = Owned(owner, en.n, name)
           /\ registry' = IF en.outcome = "enabled"
                          THEN SetEnabled(registry, name, TRUE) ELSE registry
           /\ pending' = IF en.outcome = "init"
                         THEN [fn |-> "init", name |-> name, module |-> plugin,
                               all  |-> AllRegistered(en.h, plugin),
                               none |-> NoneRegistered(en.h, plugin)]
                         ELSE NoCall
           /\ lastPlugin' = [op |-> "enable", name |-> name, outcome |-> en.outcome]
    /\ UNCHANGED notPlugin

\* disable(name), up to its await of destroy or to its end.
DisableStart(name) ==
    /\ pending = NoCall
    /\ LET dis    == disableToDestroy(registry, hooks, name)
           plugin == ModuleOf(registry, name)
       IN  /\ hooks' = dis.h
           /\ registry' = IF dis.outcome = "disabled"
                          THEN SetEnabled(registry, name, FALSE) ELSE registry
           /\ pending' = IF dis.outcome = "destroy"
                         THEN [fn |-> "destroy", name |-> name, module |-> plugin,
                               all  |-> AllRegistered(dis.h, plugin),
                               none |-> NoneRegistered(dis.h, plugin)]
                         ELSE NoCall
           /\ lastPlugin' = IF dis.outcome \in { "disabled", "destroy" }
                            THEN [op |-> "unregisterPlugin", name |-> name,
                                  before |-> hooks, after |-> dis.h]
                            ELSE [op |-> "disable", name |-> name, outcome |-> dis.outcome]
    /\ UNCHANGED <<regCount, owner>>
    /\ UNCHANGED notPlugin

\* The awaited init() or destroy() settles: fulfilled, enable sets entry.enabled =
\* true and disable sets it false; rejected, enable or disable rejects and
\* entry.enabled is left as it was.
LifecycleSettle ==
    /\ pending # NoCall
    /\ LET outcome == pending.module[pending.fn]
       IN  /\ registry' = IF outcome = "ok"
                          THEN SetEnabled(registry, pending.name, pending.fn = "init")
                          ELSE registry
           /\ lastPlugin' = [op |-> pending.fn, name |-> pending.name,
                             threw |-> outcome # "ok"]
    /\ pending' = NoCall
    /\ UNCHANGED <<hooks, regCount, owner>>
    /\ UNCHANGED notPlugin

\* on(hookName, fn, {name, priority}) called next to the plugins.
PluginOn(hookName, hd, priority) ==
    /\ regCount < MaxPluginRegs
    /\ IF hookName \in VALID_HOOKS
       THEN /\ hooks' = on(hooks, hookName, hd.fn, hd.name, priority, regCount + 1)
            /\ regCount' = regCount + 1
            /\ owner' = Owned(owner, 1, Direct)
       ELSE UNCHANGED <<hooks, regCount, owner>>
    /\ lastPlugin' = [op |-> "on", name |-> hd.name]
    /\ UNCHANGED <<registry, pending>>
    /\ UNCHANGED notPlugin

\* unregisterPlugin(pluginName) of the hook bus, called directly.
UnregisterPluginCall(pluginName) ==
    /\ hooks' = unregisterPlugin(hooks, pluginName)
    /\ lastPlugin' = [op |-> "unregisterPlugin", name |-> pluginName,
                      before |-> hooks, after |-> hooks']
    /\ UNCHANGED <<regCount, registry, owner, pending>>
    /\ UNCHANGED notPlugin

GetCommands ==
    /\ lastPlugin' = [op |-> "getCommands", commands |-> getCommands(registry)]
    /\ UNCHANGED <<hooks, regCount, registry, owner, pending>>
    /\ UNCHANGED notPlugin

PluginNext ==
    \/ \E dir \in DirInputs, autoEnable \in BOOLEAN : Discover(dir, autoEnable)
    \/ \E name \in PluginNameInputs : EnableStart(name)
    \/ \E name \in PluginNameInputs : DisableStart(name)
    \/ LifecycleSettle
    \/ \E call \in PluginOnInputs : PluginOn(call[1], call[2], call[3])
    \/ \E name \in UnregisterInputs : UnregisterPluginCall(name)
    \/ GetCommands

(***************************************************************************)
(* Plugin registry: claims                                                 *)
(***************************************************************************)

InitRuns == pending.fn = "init"

DestroyRuns == pending.fn = "destroy"

\* C24 as stated: enable(p) registers p's hooks into the hook bus and then invokes
\* init; disable(p) invokes destroy and then unregisters p's hooks, so p's hooks
\* are registered when init is called and still registered when destroy is called.
C24_HooksRegisteredWhenDestroyRuns ==
    (InitRuns \/ DestroyRuns) => pending.all

\* C24 (amended): when enable(p) calls init, every hook of p is registered in the
\* hook bus; when disable(p) calls destroy, p's hooks have already been
\* unregistered: none of them is in the bus.
C24_RegisteredAtInitGoneAtDestroy ==
    /\ InitRuns => pending.all
    /\ DestroyRuns => pending.none

\* disable(p) awaits destroy for a plugin that declared hooks and was enabled.
C24_Witness ==
    /\ DestroyRuns
    /\ pending.module.hooks # <<>>
    /\ pending.none
    /\ \E i \in 1..Len(owner) : owner[i] = pending.name


\* The handlers a hook bus holds, at all hook points.
HandlersIn(h) == UNION { Range(h[x]) : x \in DOMAIN h }

UnregisterReturned == lastPlugin.op = "unregisterPlugin"

\* The handlers the latest unregisterPlugin call removed from the bus.
Removed == HandlersIn(lastPlugin.before) \ HandlersIn(lastPlugin.after)

\* Who registered a handler: a plugin (by name) or a direct call of on().
RegisteredBy(hd) == owner[hd.seq]

\* C25 as stated: unregisterPlugin(p) removes every handler that plugin p
\* registered, at every hook point, and removes no handler registered by a
\* different plugin or directly through on().
C25_RemovesOwnHandlersOnly ==
    UnregisterReturned =>
        \A hd \in HandlersIn(lastPlugin.before) :
            hd \in Removed <=> RegisteredBy(hd) = lastPlugin.name

\* C25 (amended): unregisterPlugin(p) removes every handler that plugin p
\* registered, at every hook point, and of the other handlers exactly those
\* whose name starts with "p:".
C25_RemovesByNamePrefix ==
    UnregisterReturned =>
        \A hd \in HandlersIn(lastPlugin.before) :
            /\ RegisteredBy(hd) = lastPlugin.name => hd \in Removed
            /\ hd \in Removed <=> StartsWith(hd.name, lastPlugin.name \o <<":">>)

\* unregisterPlugin removed the handlers of a plugin at two hook points and kept
\* a handler of another registrant.
C25_Witness ==
    /\ UnregisterReturned
    /\ \E a \in Removed, b \in Removed :
          /\ a.seq # b.seq
          /\ RegisteredBy(a) = lastPlugin.name
          /\ RegisteredBy(b) = lastPlugin.name
          /\ \E x \in DOMAIN lastPlugin.before :
                a \in Range(lastPlugin.before[x]) /\ b \notin Range(lastPlugin.before[x])
    /\ \E hd \in HandlersIn(lastPlugin.after) : RegisteredBy(hd) # lastPlugin.name


DiscoverReturned == lastPlugin.op = "discover"

\* The directory entries discover imports: .js files and directories with index.js.
Loadable(e) == e.form \in { "file", "dir" }

\* A module that loads, and that enables when discover enables it.
LoadsAndEnables(e, autoEnable) ==
    /\ e.import = "ok"
    /\ e.name # <<>>
    /\ autoEnable =>
          /\ \A i \in 1..Len(e.hooks) : e.hooks[i][1] \in VALID_HOOKS
          /\ e.init \in { "none", "ok" }

\* Every loadable entry of the directory has a result entry of its own, which
\* says "loaded" if and only if the plugin loaded (and enabled).
EveryEntryReported ==
    \A i \in 1..Len(lastPlugin.dir.entries) :
        LET e == lastPlugin.dir.entries[i]
        IN  Loadable(e) =>
              \E k \in 1..Len(lastPlugin.results) :
                  /\ lastPlugin.results[k].file = e.file
                  /\ lastPlugin.results[k].status = "loaded"
                        <=> LoadsAndEnables(e, lastPlugin.autoEnable)

\* C26: plugin load failures never abort discovery: when one plugin fails to load
\* or to enable, discover still processes every other entry of the directory and
\* reports the failure in that plugin's own result entry.
C26_DiscoveryNeverAborted ==
    DiscoverReturned => (~lastPlugin.aborted /\ EveryEntryReported)


CommandsReturned == lastPlugin.op = "getCommands"

\* The enabled plugins that declare the command, by position in the registry
\* (the order in which the plugins were loaded).
Declaring(cmd) ==
    { i \in 1..Len(registry) :
        registry[i].enabled /\ cmd \in Range(registry[i].module.commands) }

FirstLoaded(cmd) == CHOOSE i \in Declaring(cmd) : \A j \in Declaring(cmd) : i <= j

\* C27: when two enabled plugins declare the same command name, the command map
\* resolves that name to the handler of the plugin that was loaded first.
C27_FirstLoadedWins ==
    CommandsReturned =>
        \A cmd \in DOMAIN lastPlugin.commands :
            /\ lastPlugin.commands[cmd].plugin = registry[FirstLoaded(cmd)].name
            /\ lastPlugin.commands[cmd].handler = registry[FirstLoaded(cmd)].module.file

\* discover, enable and disable alone: no handler is registered or unregistered next
\* to the plugins.
PluginLifecycleNext ==
    \/ \E dir \in DirInputs, autoEnable \in BOOLEAN : Discover(dir, autoEnable)
    \/ \E name \in PluginNameInputs : EnableStart(name)
    \/ \E name \in PluginNameInputs : DisableStart(name)
    \/ LifecycleSettle

\* How many handlers named after the plugin's hook the bus holds under that hook.
TimesRegistered(h, plugin, hookName) ==
    IF hookName \notin DOMAIN h THEN 0
    ELSE LET own(hd) == hd.name = plugin.name \o <<":", hookName>>
         IN  Len(SelectSeq(h[hookName], own))

\* C37: after any sequence of enable and disable calls, including calls in which init
\* or destroy throws, a plugin's hooks are registered in the hook bus iff the registry
\* marks the plugin enabled, and each of its hooks is registered at most once.
C37_HooksIffEnabled ==
    pending = NoCall =>
        \A i \in 1..Len(registry) :
            LET plugin == registry[i].module
            IN  \A k \in 1..Len(plugin.hooks) :
                    LET n == TimesRegistered(hooks, plugin, plugin.hooks[k][1])
                    IN  n <= 1 /\ (n = 1 <=> registry[i].enabled)

(***************************************************************************)
(* History                                                                 *)
(***************************************************************************)

\* Bound: number of history.record calls in one behaviour.
MaxRecords == 3

\* JavaScript's undefined and null, and an empty tags array, among string values.
Undefined == "undefined"

Null == "null"

EmptyArray == "[]"

\* What store.get returns for a key the collection does not hold.
NoValue == [missing |-> TRUE]

\* The entries passed to record: the one of the persistence test, the one the
\* pipeline passes (prompt, model, score and no code), and another generation.
TestEntry ==
    [prompt |-> "Track my sleep patterns", enhancedPrompt |-> "Enhanced: Track my sleep patterns...",
     model |-> "gemini-3-flash-preview", provider |-> "gemini", score |-> "0.8/0.7/0.9/0.6",
     grade |-> "A", code |-> "<html><body>Sleep Tracker</body></html>",
     style |-> Undefined, tags |-> "health,tracker"]

PipelineEntry ==
    [prompt |-> "a todo list", enhancedPrompt |-> Undefined,
     model |-> "gemini", provider |-> Undefined, score |-> "0.75",
     grade |-> Undefined, code |-> Undefined,
     style |-> Undefined, tags |-> Undefined]

OtherEntry ==
    [prompt |-> "a pomodoro timer", enhancedPrompt |-> "",
     model |-> "claude", provider |-> "claude", score |-> "0.5/0.5/0.5/0.5",
     grade |-> "B", code |-> "<html>Timer</html>",
     style |-> "minimal", tags |-> "time"]

EntryInputs == { TestEntry, PipelineEntry, OtherEntry }

\* The values randomUUID().slice(0, 8) takes: eight hexadecimal digits.
IdInputs == { "3f2a9c1e", "b07d44aa", "e1c0ffee" }

\* String.prototype.length of the codes above.
Length(text) ==
    CASE text = "<html><body>Sleep Tracker</body></html>" -> 39
      [] text = "<html>Timer</html>" -> 18
      [] OTHER -> 0

\* x || fallback for a string-valued x: undefined, null and "" are falsy.
OrElse(x, fallback) == IF x \in { Undefined, Null, "" } THEN fallback ELSE x

\* The properties of a history entry that record copies from its argument as they
\* are: each one is undefined when the caller did not pass it.
CopiedFields == { "prompt", "model", "provider", "score", "grade" }

\* JSON.parse(JSON.stringify(value)) of a stored object: a property whose value
\* is undefined is left out.
Json(value) ==
    [f \in DOMAIN value \ { g \in DOMAIN value \cap (CopiedFields \cup {"code"}) :
                               value[g] = Undefined } |-> value[f]]

\* obj[f] for a string-valued property: undefined when the object has none.
Field(obj, f) == IF f \in DOMAIN obj THEN obj[f] ELSE Undefined

\* readCollection(collection): the parsed file, {} when there is none.
readCollection(d, collection) == d[collection]

\* store.set(collection, key, value): read the file, assign, write it back.
StoreSet(d, collection, key, value) ==
    LET data == readCollection(d, collection)
    IN  [d EXCEPT ![collection] =
            [k \in DOMAIN data \cup {key} |-> IF k = key THEN Json(value) ELSE data[k]]]

\* store.get(collection, key)
StoreGet(d, collection, key) ==
    LET data == readCollection(d, collection)
    IN  IF key \in DOMAIN data THEN data[key] ELSE NoValue

\* store.del(collection, key)
StoreDel(d, collection, key) ==
    LET data == readCollection(d, collection)
    IN  IF key \notin DOMAIN data THEN d
        ELSE [d EXCEPT ![collection] = [k \in DOMAIN data \ {key} |-> data[k]]]

\* The metadata record builds (lines 52-64).
Meta(entry, id, timestamp) ==
    [id |-> id,
     prompt |-> entry.prompt,
     enhancedPrompt |-> OrElse(entry.enhancedPrompt, Null),
     model |-> entry.model,
     provider |-> entry.provider,
     score |-> entry.score,
     grade |-> entry.grade,
     codeLength |-> IF entry.code = Undefined THEN 0 ELSE Length(entry.code),
     style |-> OrElse(entry.style, Null),
     tags |-> OrElse(entry.tags, EmptyArray),
     timestamp |-> timestamp]

\* record(entry) for the id and the timestamp it draws.
record(d, entry, id, timestamp) ==
    LET withMeta == StoreSet(d, "history", id, Meta(entry, id, timestamp))
    IN  IF OrElse(entry.code, Undefined) # Undefined
        THEN StoreSet(withMeta, "generations", id, [code |-> entry.code, timestamp |-> timestamp])
        ELSE withMeta

get(d, id) == StoreGet(d, "history", id)

getCode(d, id) ==
    LET gen == StoreGet(d, "generations", id)
    IN  IF gen = NoValue THEN Undefined ELSE Field(gen, "code")

remove(d, id) == StoreDel(StoreDel(d, "history", id), "generations", id)

NoHistoryOp == [op |-> "none"]

HistoryInit ==
    /\ disk = [history |-> << >>, generations |-> << >>]
    /\ recordLog = <<>>
    /\ retained = {}
    /\ lastHistory = NoHistoryOp

\* record(entry): the clock reading is the ordinal of the call.
Record(entry, id) ==
    /\ Len(recordLog) < MaxRecords
    /\ LET timestamp == Len(recordLog) + 1
       IN  /\ disk' = record(disk, entry, id, timestamp)
           /\ recordLog' = Append(recordLog, [id |-> id, entry |-> entry,
                                              meta |-> Meta(entry, id, timestamp)])
           /\ retained' = retained \cup { timestamp }
    /\ lastHistory' = [op |-> "record", id |-> id]
    /\ UNCHANGED notHistory

\* get(id) and getCode(id)
Lookup(id) ==
    /\ lastHistory' = [op |-> "get", id |-> id,
                       entry |-> get(disk, id), code |-> getCode(disk, id)]
    /\ UNCHANGED <<disk, recordLog, retained>>
    /\ UNCHANGED notHistory

\* remove(id)
Remove(id) ==
    /\ disk' = remove(disk, id)
    /\ retained' = { i \in retained : recordLog[i].id # id }
    /\ lastHistory' = [op |-> "remove", id |-> id]
    /\ UNCHANGED recordLog
    /\ UNCHANGED notHistory

HistoryNext ==
    \/ \E entry \in EntryInputs, id \in IdInputs : Record(entry, id)
    \/ \E id \in IdInputs : Lookup(id)
    \/ \E id \in IdInputs : Remove(id)

(***************************************************************************)
(* History: claims                                                         *)
(***************************************************************************)

LookedUp == lastHistory.op = "get"

\* The entry get returned carries what record built for the call.
SamePayload(got, meta) ==
    /\ got # NoValue
    /\ \A f \in CopiedFields \cup { "id", "enhancedPrompt", "style", "tags" } :
          Field(got, f) = meta[f]
    /\ got.codeLength = meta.codeLength
    /\ got.timestamp = meta.timestamp

\* C28: after record(entry) returns id, get(id) and getCode(id) return the
\* recorded payload, and keep returning it until remove(id), whatever other
\* entries are recorded in between (record never overwrites an existing entry).
C28_RecordRoundTrips ==
    LookedUp =>
        \A i \in retained :
            recordLog[i].id = lastHistory.id =>
                /\ SamePayload(lastHistory.entry, recordLog[i].meta)
                /\ lastHistory.code = recordLog[i].entry.code

\* C29: an id has a metadata entry in 'history' iff it has an artifact entry in
\* 'generations', and after remove(id) both get(id) and getCode(id) return absent.
C29_MetadataIffArtifact ==
    /\ DOMAIN disk.history = DOMAIN disk.generations
    /\ lastHistory.op = "remove" =>
          /\ get(disk, lastHistory.id) = NoValue
          /\ getCode(disk, lastHistory.id) = Undefined

(***************************************************************************)
(* Migrations                                                              *)
(***************************************************************************)

\* Bound: number of upgrade calls in one behaviour.
MaxUpgrades == 3

\* The migrations array, in the order of the defineMigration calls.
Versions == << "0.2.0", "0.5.0", "0.10.0", "0.15.0", "0.19.0" >>

\* .forge/config.json: absent, not parseable, or an object; tags says that
\* config.tags is truthy, theme that config.defaultTheme is not undefined.
NoConfig == [state |-> "absent", tags |-> FALSE, theme |-> FALSE]

CorruptConfig == [state |-> "corrupt", tags |-> FALSE, theme |-> FALSE]

FreshConfig == [state |-> "ok", tags |-> FALSE, theme |-> FALSE]

TaggedConfig == [state |-> "ok", tags |-> TRUE, theme |-> FALSE]

\* The files of .forge/history: an entry without persona whose score is an object
\* without total, an entry that has both, an entry whose score is a number, and a
\* file that is not JSON.
OldEntry == [state |-> "ok", persona |-> "absent", score |-> "object"]

NewEntry == [state |-> "ok", persona |-> "set", score |-> "objectWithTotal"]

NumberEntry == [state |-> "ok", persona |-> "absent", score |-> "number"]

CorruptEntry == [state |-> "corrupt", persona |-> "absent", score |-> "absent"]

NoLog == [state |-> "absent", applied |-> <<>>]

CorruptLog == [state |-> "corrupt", applied |-> <<>>]

\* The workspaces upgrade is called on.
WorkspaceInputs ==
    { [config |-> FreshConfig, spells |-> FALSE, grimoire |-> FALSE,
       history |-> [exists |-> TRUE, files |-> <<>>], log |-> NoLog],
      [config |-> FreshConfig, spells |-> TRUE, grimoire |-> FALSE,
       history |-> [exists |-> TRUE, files |-> <<OldEntry, CorruptEntry>>], log |-> NoLog],
      [config |-> TaggedConfig, spells |-> TRUE, grimoire |-> TRUE,
       history |-> [exists |-> TRUE, files |-> <<NewEntry, NumberEntry>>], log |-> CorruptLog],
      [config |-> NoConfig, spells |-> FALSE, grimoire |-> TRUE,
       history |-> [exists |-> FALSE, files |-> <<>>], log |-> NoLog],
      [config |-> CorruptConfig, spells |-> TRUE, grimoire |-> FALSE,
       history |-> [exists |-> TRUE, files |-> <<OldEntry>>], log |-> NoLog],
      [config |-> CorruptConfig, spells |-> FALSE, grimoire |-> TRUE,
       history |-> [exists |-> TRUE, files |-> <<OldEntry>>],
       log |-> [state |-> "ok",
                applied |-> << [version |-> "0.2.0", appliedAt |-> 0, result |-> "changed"],
                               [version |-> "0.5.0", appliedAt |-> 0, result |-> "unchanged"] >>]],
      [config |-> FreshConfig, spells |-> FALSE, grimoire |-> TRUE,
       history |-> [exists |-> TRUE, files |-> <<OldEntry>>],
       log |-> [state |-> "ok",
                applied |-> << [version |-> "0.2.0", appliedAt |-> 0, result |-> "changed"],
                               [version |-> "0.5.0", appliedAt |-> 0, result |-> "changed"] >>]] }

NoWorkspace == [opened |-> FALSE]

NoUpgrade == [op |-> "none"]

MigrationInit ==
    /\ workspace = NoWorkspace
    /\ upgradeLog = <<>>
    /\ lastUpgrade = NoUpgrade

\* What a migration function returns: {skipped: true}, {changed: true}, or
\* {changed: false}; "threw" when it throws.
\* 0.2.0: add tags to the workspace config.
AddTags(w) ==
    CASE w.config.state = "absent"  -> [w |-> w, result |-> "skipped"]
      [] w.config.state = "corrupt" -> [w |-> w, result |-> "threw"]
      [] ~w.config.tags -> [w |-> [w EXCEPT !.config.tags = TRUE], result |-> "changed"]
      [] OTHER -> [w |-> w, result |-> "unchanged"]

\* 0.5.0: rename spells/ to grimoire/.
RenameSpells(w) ==
    IF w.spells /\ ~w.grimoire
    THEN [w |-> [w EXCEPT !.spells = FALSE, !.grimoire = TRUE], result |-> "changed"]
    ELSE [w |-> w, result |-> "unchanged"]

\* The history files for which a migration's test holds, and the files after it.
Touched(files, test(_)) == { i \in 1..Len(files) : files[i].state = "ok" /\ test(files[i]) }

\* 0.10.0: add the persona field to history entries (!entry.persona holds for a
\* missing and for a null persona).
AddPersona(w) ==
    LET test(file) == file.persona \in { "absent", "null" }
        files == w.history.files
        after == [i \in 1..Len(files) |->
                     IF i \in Touched(files, test)
                     THEN [files[i] EXCEPT !.persona = "null"] ELSE files[i]]
    IN  IF ~w.history.exists THEN [w |-> w, result |-> "skipped"]
        ELSE [w |-> [w EXCEPT !.history.files = after],
              result |-> IF Touched(files, test) # {} THEN "changed" ELSE "unchanged"]

\* 0.15.0: add score.total; the assignment to a property of a number throws in
\* module code and the file is skipped.
NormalizeScores(w) ==
    LET test(file) == file.score = "object"
        files == w.history.files
        after == [i \in 1..Len(files) |->
                     IF i \in Touched(files, test)
                     THEN [files[i] EXCEPT !.score = "objectWithTotal"] ELSE files[i]]
    IN  IF ~w.history.exists THEN [w |-> w, result |-> "skipped"]
        ELSE [w |-> [w EXCEPT !.history.files = after],
              result |-> IF Touched(files, test) # {} THEN "changed" ELSE "unchanged"]

\* 0.19.0: add defaultTheme to the workspace config.
AddTheme(w) ==
    CASE w.config.state = "absent"  -> [w |-> w, result |-> "skipped"]
      [] w.config.state = "corrupt" -> [w |-> w, result |-> "threw"]
      [] ~w.config.theme -> [w |-> [w EXCEPT !.config.theme = TRUE], result |-> "changed"]
      [] OTHER -> [w |-> w, result |-> "unchanged"]

\* migration.fn(dir)
Migrate(version, w) ==
    CASE version = "0.2.0"  -> AddTags(w)
      [] version = "0.5.0"  -> RenameSpells(w)
      [] version = "0.10.0" -> AddPersona(w)
      [] version = "0.15.0" -> NormalizeScores(w)
      [] OTHER              -> AddTheme(w)

\* getApplied(dir): the parsed log, [] when it is missing or not parseable.
getApplied(w) == IF w.log.state = "ok" THEN w.log.applied ELSE <<>>

\* Every migration is pending, whatever the log says (mutation of getPending).
getPendingAll(w) == Versions

\* getPending(dir): the migrations whose version the log does not list.
getPending(w) ==
    LET applied == { getApplied(w)[i].version : i \in 1..Len(getApplied(w)) }
        unapplied(version) == version \notin applied
    IN  SelectSeq(Versions, unapplied)

\* The loop goes on after a migration that threw (mutation of Breaks).
BreaksNever(opts) == FALSE

\* if (!opts.continueOnError) break
Breaks(opts) == ~opts.continueOnError

RECURSIVE UpgradeFrom(_, _, _, _, _)
\* The loop of upgrade over the pending migrations, from migration i: u holds the
\* workspace, the applied array, the results and whether the loop was left.
UpgradeFrom(u, pendingNow, i, opts, now) ==
    IF i > Len(pendingNow) \/ u.broke THEN u
    ELSE LET version == pendingNow[i]
             m == Migrate(version, u.w)
             rec == [version |-> version, appliedAt |-> now, result |-> m.result]
         IN  IF opts.dryRun
             THEN UpgradeFrom([u EXCEPT !.results = Append(@, [version |-> version, kind |-> "dryRun"])],
                              pendingNow, i + 1, opts, now)
             ELSE IF m.result = "threw"
             THEN UpgradeFrom([u EXCEPT !.results = Append(@, [version |-> version, kind |-> "error"]),
                                        !.ran = @ + 1,
                                        !.broke = Breaks(opts)],
                              pendingNow, i + 1, opts, now)
             ELSE UpgradeFrom([u EXCEPT !.w = m.w,
                                        !.ran = @ + 1,
                                        !.applied = Append(@, rec),
                                        !.results = Append(@, [version |-> version, kind |-> "applied"])],
                              pendingNow, i + 1, opts, now)

\* results.filter(r => !r.error && !r.dryRun).length
AppliedCount(results) == Len(SelectSeq(results, LAMBDA r : r.kind = "applied"))

\* The log is written whatever the options are (mutation of WritesLog).
WritesLogAlways(opts) == TRUE

\* if (!opts.dryRun): the migration log is written.
WritesLog(opts) == ~opts.dryRun

\* upgrade(dir, opts) at clock reading `now`: the workspace after it, what it
\* returns, and the number of migration functions it called.
upgrade(w, opts, now) ==
    LET pendingNow == getPending(w)
        u == UpgradeFrom([w |-> w, applied |-> getApplied(w), results |-> <<>>,
                          ran |-> 0, broke |-> FALSE],
                         pendingNow, 1, opts, now)
    IN  IF pendingNow = <<>>
        THEN [w |-> w, ok |-> TRUE, applied |-> 0, results |-> <<>>, ran |-> 0]
        ELSE [w |-> IF WritesLog(opts)
                    THEN [u.w EXCEPT !.log = [state |-> "ok", applied |-> u.applied]]
                    ELSE u.w,
              ran |-> u.ran,
              ok |-> \A k \in 1..Len(u.results) : u.results[k].kind # "error",
              applied |-> AppliedCount(u.results),
              results |-> u.results]

\* The workspace directory the upgrader is pointed at.
Open(w) ==
    /\ workspace = NoWorkspace
    /\ workspace' = w
    /\ UNCHANGED <<upgradeLog, lastUpgrade>>
    /\ UNCHANGED notMigration

\* await upgrade(dir, {dryRun, continueOnError})
Upgrade(dryRun, continueOnError) ==
    /\ workspace # NoWorkspace
    /\ Len(upgradeLog) < MaxUpgrades
    /\ LET opts == [dryRun |-> dryRun, continueOnError |-> continueOnError]
           res  == upgrade(workspace, opts, Len(upgradeLog) + 1)
       IN  /\ workspace' = res.w
           /\ upgradeLog' = Append(upgradeLog, [dryRun |-> dryRun, continueOnError |-> continueOnError,
                                             ok |-> res.ok])
           /\ lastUpgrade' = [op |-> "upgrade", dryRun |-> dryRun,
                              continueOnError |-> continueOnError,
                              before |-> workspace, ok |-> res.ok,
                              applied |-> res.applied, results |-> res.results,
                              ran |-> res.ran]
    /\ UNCHANGED notMigration

MigrationNext ==
    \/ \E w \in WorkspaceInputs : Open(w)
    \/ \E dryRun \in BOOLEAN, continueOnError \in BOOLEAN : Upgrade(dryRun, continueOnError)

(***************************************************************************)
(* Migrations: claims                                                      *)
(***************************************************************************)

\* The latest call was an upgrade that was not a dry run.
Upgraded == lastUpgrade.op = "upgrade" /\ ~lastUpgrade.dryRun

\* The upgrade calls before the latest one.
EarlierUpgrades == SubSeq(upgradeLog, 1, Len(upgradeLog) - 1)

\* The latest upgrade applied nothing and left the log and every file as they were.
NoFurtherChanges ==
    /\ lastUpgrade.applied = 0
    /\ workspace = lastUpgrade.before

DryRun == lastUpgrade.op = "upgrade" /\ lastUpgrade.dryRun

\* C31: a dry run never writes: upgrade with dryRun = true runs no migration
\* function, leaves the migration log and every workspace file unchanged, and
\* leaves the set of pending migrations unchanged.
C31_DryRunNeverWrites ==
    DryRun =>
        /\ lastUpgrade.ran = 0
        /\ workspace = lastUpgrade.before
        /\ getPending(workspace) = getPending(lastUpgrade.before)

\* A dry run over a workspace with pending migrations, each reported as a dry run.
C31_Witness ==
    /\ DryRun
    /\ getPending(lastUpgrade.before) # <<>>
    /\ Len(lastUpgrade.results) = Len(getPending(lastUpgrade.before))
    /\ \A k \in 1..Len(lastUpgrade.results) : lastUpgrade.results[k].kind = "dryRun"
    /\ workspace.log.state # "ok"


\* The versions the migration log lists, in its order.
LoggedVersions(w) == [i \in 1..Len(getApplied(w)) |-> getApplied(w)[i].version]

\* The log lists the first n migrations, in definition order.
LogIsPrefix(w) == LoggedVersions(w) = SubSeq(Versions, 1, Len(LoggedVersions(w)))

\* No migration that threw in the latest upgrade is listed in the log.
ThrownNotRecorded ==
    \A k \in 1..Len(lastUpgrade.results) :
        lastUpgrade.results[k].kind = "error" =>
            \A i \in 1..Len(LoggedVersions(workspace)) :
                LoggedVersions(workspace)[i] # lastUpgrade.results[k].version

AnUpgrade == lastUpgrade.op = "upgrade"

\* C39 as stated: after any upgrade, with or without continueOnError and
\* whichever migrations throw, the versions recorded in the migration log form a
\* prefix of the migration list in definition order, and a migration that threw
\* is not recorded.
C39_LogIsPrefixAlways ==
    AnUpgrade => (LogIsPrefix(workspace) /\ ThrownNotRecorded)

\* C39 (amended): a migration that threw is never recorded, and as long as no
\* upgrade was run with continueOnError, the versions recorded in the migration
\* log form a prefix of the migration list in definition order.
C39_LogIsPrefixUnlessContinued ==
    AnUpgrade =>
        /\ ThrownNotRecorded
        /\ (\A k \in 1..Len(upgradeLog) : ~upgradeLog[k].continueOnError)
              => LogIsPrefix(workspace)

\* An upgrade without continueOnError recorded migrations and stopped at one that threw.
C39_Witness ==
    /\ AnUpgrade
    /\ ~lastUpgrade.dryRun
    /\ ~lastUpgrade.continueOnError
    /\ lastUpgrade.applied >= 1
    /\ \E k \in 1..Len(lastUpgrade.results) : lastUpgrade.results[k].kind = "error"
    /\ getPending(workspace) # <<>>

(***************************************************************************)
(* The generation pipeline (pipeline, lines 51-146)                        *)
(***************************************************************************)

\* Bound: the number of runs the persist step records.
MaxPipelineRuns == 2

\* The intents a run is given: the empty string and a sentence.
PromptInputs == { "", "track my sleep" }

\* The options of a run that decide its path: iterate and persist.
PipelineOpts == [iterate : BOOLEAN, persist : BOOLEAN]

\* The documents chain or route hand back to the pipeline.
PipelineDocuments == { Minimal, Medium, Rich }

\* What the awaited chain or route call gives the pipeline: chain's result object
\* (html, score, iterations), route's document, or a rejection.
GenerationOutcomes(iterate) ==
    IF iterate
    THEN { [kind |-> "result", html |-> html, score |-> Average(validate(html)),
            iterations |-> n] : html \in PipelineDocuments, n \in 1..2 } \cup { Failure }
    ELSE { [kind |-> "result", html |-> html, score |-> 0, iterations |-> 1] :
               html \in PipelineDocuments } \cup { Failure }

\* enhance(intent, opts): the template with the intent quoted under USER INTENT.
enhance(intent) == <<"## USER INTENT", intent, "## REQUIREMENTS">>

NotRunning == [stage |-> "idle"]
NoPipelineOp == [op |-> "none"]

PipelineInit ==
    /\ pipe = NotRunning
    /\ stages = <<>>
    /\ persisted = <<>>
    /\ lastPipeline = NoPipelineOp

\* pipeline(prompt, opts) up to its await: the context is gathered, the prompt is
\* enhanced, and chain or route is called with the enhanced prompt.
PipelineStart(prompt, opts) ==
    /\ pipe = NotRunning
    /\ Len(persisted) < MaxPipelineRuns
    /\ pipe' = [stage |-> "generating", prompt |-> prompt, opts |-> opts,
                enhancedPrompt |-> enhance(prompt)]
    /\ stages' = <<"context", "enhance", "generate">>
    /\ lastPipeline' = NoPipelineOp
    /\ UNCHANGED persisted
    /\ UNCHANGED notPipeline

\* score of the single-shot path: validation.total || average (validate has no total).
SingleShotScore(html) == Average(validate(html))

\* The awaited call settles: the result is validated, persisted when asked, returned.
PipelineSettle(outcome) ==
    /\ pipe # NotRunning
    /\ outcome \in GenerationOutcomes(pipe.opts.iterate)
    /\ pipe' = NotRunning
    /\ IF outcome = Failure
       THEN /\ lastPipeline' = [op |-> "pipeline", prompt |-> pipe.prompt, threw |-> TRUE]
            /\ UNCHANGED <<stages, persisted>>
       ELSE LET score == IF pipe.opts.iterate THEN outcome.score
                         ELSE SingleShotScore(outcome.html)
                entry == [prompt |-> pipe.prompt, model |-> "gemini", score |-> score,
                          iterations |-> outcome.iterations]
            IN  /\ IF pipe.opts.persist
                   THEN /\ persisted' = Append(persisted, entry)
                        /\ stages' = stages \o <<"validate", "persist">>
                   ELSE /\ UNCHANGED persisted
                        /\ stages' = Append(stages, "validate")
                /\ lastPipeline' = [op |-> "pipeline", prompt |-> pipe.prompt,
                                    threw |-> FALSE, html |-> outcome.html,
                                    score |-> score, enhancedPrompt |-> pipe.enhancedPrompt]
    /\ UNCHANGED notPipeline

PipelineNext ==
    \/ \E prompt \in PromptInputs, opts \in PipelineOpts : PipelineStart(prompt, opts)
    \/ \E iterate \in BOOLEAN : \E outcome \in GenerationOutcomes(iterate) : PipelineSettle(outcome)

\* The stages a pipeline run has reached.
Reached(stage) == \E k \in 1..Len(stages) : stages[k] = stage

\* The run in progress, or the one that just ended, was given the empty intent.
EmptyIntentRun ==
    \/ pipe # NotRunning /\ pipe.prompt = ""
    \/ lastPipeline.op = "pipeline" /\ lastPipeline.prompt = ""

\* C32: a pipeline run with an empty intent is rejected before the enhancer is called:
\* it never reaches Enhance, Generate or Persist.
C32_EmptyIntentRejected ==
    EmptyIntentRun => ~Reached("enhance") /\ ~Reached("generate") /\ ~Reached("persist")

(***************************************************************************)
(* The rate limiter on its own clock (RateLimiter.check and the rate-limit *)
(* step of the request handler, lib/api/client.js lines 251-272, 353-360)  *)
(***************************************************************************)

\* Bounds: the last tick of the limiter's clock and the number of checks.
MaxLimiterTime == 4
MaxChecks == 5

NoLimiter == [created |-> FALSE]
NoDenial == [denied |-> FALSE]
NoCheck == [op |-> "none"]

LimiterInit ==
    /\ limiter = NoLimiter
    /\ limNow = 0
    /\ denial = [ip \in Ips |-> NoDenial]
    /\ lastCheck = NoCheck

\* new RateLimiter({ maxRequests: rateMax })
LimiterCreate(maxRequests) ==
    /\ limiter = NoLimiter
    /\ limiter' = [created |-> TRUE, maxRequests |-> maxRequests, windows |-> << >>,
                   checks |-> 0]
    /\ UNCHANGED <<limNow, denial, lastCheck>>
    /\ UNCHANGED notLimiter

\* The hits the limiter holds for ip.
HitsOf(w, ip) == IF ip \in DOMAIN w THEN w[ip] ELSE <<>>

\* The rate-limit step of the request handler for a request of ip: limiter.check(ip),
\* then 429 with retryAfterMs = rl.resetMs when the check is denied. `denial` keeps
\* the 429 an ip was answered until the ip sends its next request.
LimiterCheck(ip, cleanup) ==
    /\ limiter # NoLimiter
    /\ limiter.checks < MaxChecks
    /\ LET rl == check(limiter.windows, limiter.maxRequests, ip, limNow, cleanup)
       IN  /\ limiter' = [limiter EXCEPT !.windows = rl.windows, !.checks = @ + 1]
           /\ denial' = [denial EXCEPT ![ip] =
                            IF rl.allowed THEN NoDenial
                            ELSE [denied |-> TRUE, at |-> limNow, retryAfterMs |-> rl.resetMs]]
           /\ lastCheck' = [op |-> "check", ip |-> ip, allowed |-> rl.allowed,
                            status |-> IF rl.allowed THEN 200 ELSE 429,
                            retryAfterMs |-> rl.resetMs,
                            before |-> HitsOf(limiter.windows, ip),
                            due |-> /\ denial[ip] # NoDenial
                                    /\ denial[ip].at + denial[ip].retryAfterMs = limNow]
    /\ UNCHANGED limNow
    /\ UNCHANGED notLimiter

\* A millisecond passes.
LimiterTick ==
    /\ limiter # NoLimiter
    /\ limNow < MaxLimiterTime
    /\ limNow' = limNow + 1
    /\ lastCheck' = NoCheck
    /\ UNCHANGED <<limiter, denial>>
    /\ UNCHANGED notLimiter

LimiterNext ==
    \/ \E maxRequests \in 0..RateMax : LimiterCreate(maxRequests)
    \/ \E ip \in Ips, cleanup \in BOOLEAN : LimiterCheck(ip, cleanup)
    \/ LimiterTick

Checked == lastCheck.op = "check"

\* The hits of `before` that are still inside the window that ends now.
StillInWindow(before) ==
    LET recent(t) == t > limNow - RateWindow IN SelectSeq(before, recent)

\* The check just made was denied and added nothing to the hits of its ip.
DeniedNotRecorded ==
    HitsOf(limiter.windows, lastCheck.ip) = StillInWindow(lastCheck.before)

\* C38 as stated: a rate-limit denial does not extend the lockout: denied checks are
\* not recorded, and an IP that was answered 429 with retryAfterMs = r and sends
\* nothing in between is allowed again by a check made r milliseconds later.
C38_AllowedAfterRetryAfter ==
    Checked =>
        /\ ~lastCheck.allowed => DeniedNotRecorded
        /\ lastCheck.due => lastCheck.allowed

\* C38, amended: with a limit of at least one request per window, denied checks are
\* not recorded, and an IP that was answered 429 with retryAfterMs = r and sends
\* nothing in between is allowed again by a check made r milliseconds later. (With a
\* limit of 0 every check is denied with retryAfterMs = 0.)
C38_AllowedAfterRetryAfterPositiveLimit ==
    Checked =>
        /\ ~lastCheck.allowed => DeniedNotRecorded
        /\ (lastCheck.due /\ limiter.maxRequests >= 1) => lastCheck.allowed

\* An ip that was denied after using up its limit, waited retryAfterMs > 0 and is
\* allowed by its next check.
C38_Witness ==
    /\ Checked
    /\ lastCheck.due
    /\ lastCheck.allowed
    /\ Len(lastCheck.before) = limiter.maxRequests
    /\ limiter.maxRequests >= 1
    /\ limNow - lastCheck.before[1] = RateWindow

(***************************************************************************)
(* The security sanitizer's scan (scan and DANGEROUS_PATTERNS,             *)
(* lines 198-245 next to the live preview)                                 *)
(***************************************************************************)

\* Bound: the number of lines of a scanned text.
MaxScanLines == 3

\* DANGEROUS_PATTERNS, in the order of the table.
DANGEROUS_PATTERNS ==
    << [name |-> "eval-in-handler",  severity |-> "high"],
       [name |-> "javascript-uri",   severity |-> "high"],
       [name |-> "cookie-access",    severity |-> "high"],
       [name |-> "redirect",         severity |-> "medium"],
       [name |-> "external-fetch",   severity |-> "low"],
       [name |-> "dynamic-function", severity |-> "high"],
       [name |-> "innerHTML-concat", severity |-> "medium"],
       [name |-> "iframe-injection", severity |-> "high"],
       [name |-> "exec-call",        severity |-> "medium"],
       [name |-> "child-process",    severity |-> "critical"],
       [name |-> "env-access",       severity |-> "medium"] >>

\* The lines a scanned text is made of: each line is harmless text or holds one
\* match of the pattern it is named after.
ScanLines == { "text", "javascript-uri", "redirect", "external-fetch", "child-process" }

\* The texts given to scan: up to MaxScanLines lines.
ScanInputs == UNION { [1..n -> ScanLines] : n \in 0..MaxScanLines }

\* The matches of one pattern in the text, in text order (the while loop over
\* pattern.exec), each with its line number.
RECURSIVE MatchesOf(_, _, _)
MatchesOf(p, code, line) ==
    IF line > Len(code) THEN <<>>
    ELSE (IF code[line] = p.name
          THEN <<[name |-> p.name, severity |-> p.severity, line |-> line]>>
          ELSE <<>>) \o MatchesOf(p, code, line + 1)

\* The issues before sorting: pattern by pattern in table order.
RECURSIVE IssuesFrom(_, _)
IssuesFrom(code, k) ==
    IF k > Len(DANGEROUS_PATTERNS) THEN <<>>
    ELSE MatchesOf(DANGEROUS_PATTERNS[k], code, 1) \o IssuesFrom(code, k + 1)

\* The table of the comparator: { critical: 0, high: 1, medium: 2, low: 3 }.
SeverityOrder == [critical |-> 0, high |-> 1, medium |-> 2, low |-> 3]

\* order[severity] || 9: a table entry of 0 is falsy and gives 9.
SortKey(severity) == IF SeverityOrder[severity] = 0 THEN 9 ELSE SeverityOrder[severity]

\* One step of a stable ascending sort by SortKey: the issue goes behind the last
\* issue whose key is not larger.
RECURSIVE InsertByKey(_, _)
InsertByKey(sorted, issue) ==
    IF sorted = <<>> THEN <<issue>>
    ELSE IF SortKey(sorted[Len(sorted)].severity) <= SortKey(issue.severity)
    THEN Append(sorted, issue)
    ELSE Append(InsertByKey(SubSeq(sorted, 1, Len(sorted) - 1), issue), sorted[Len(sorted)])

\* issues.sort((a, b) => (order[a.severity] || 9) - (order[b.severity] || 9))
RECURSIVE SortIssues(_, _)
SortIssues(issues, n) ==
    IF n = 0 THEN <<>> ELSE InsertByKey(SortIssues(issues, n - 1), issues[n])

\* scan(code)
scan(code) ==
    LET issues == IssuesFrom(code, 1)
        severe(i) == i.severity = "high" \/ i.severity = "critical"
    IN  [safe |-> Len(SelectSeq(issues, severe)) = 0,
         issues |-> SortIssues(issues, Len(issues))]

NoScan == [op |-> "none"]

ScanInit == lastScan = NoScan

\* scan(code) is called on a text.
Scan(code) ==
    /\ lastScan' = [op |-> "scan", code |-> code, result |-> scan(code)]
    /\ UNCHANGED notScan

ScanNext == \E code \in ScanInputs : Scan(code)

Scanned == lastScan.op = "scan"

\* The place of a severity in the order critical, high, medium, low.
SeverityPlace(severity) ==
    CASE severity = "critical" -> 0
      [] severity = "high" -> 1
      [] severity = "medium" -> 2
      [] severity = "low" -> 3

\* C34: scan returns its issues ordered by severity rank: every critical issue
\* precedes every high issue, which precedes every medium issue, which precedes every
\* low issue.
C34_IssuesOrderedBySeverity ==
    Scanned =>
        LET issues == lastScan.result.issues
        IN  \A i, j \in 1..Len(issues) :
               SeverityPlace(issues[i].severity) < SeverityPlace(issues[j].severity) => i < j

(***************************************************************************)
(* Specifications                                                          *)
(***************************************************************************)

Init ==
    /\ HookInit
    /\ CacheInit
    /\ SseInit
    /\ ApiInit
    /\ WatchInit
    /\ RouterInit
    /\ IterInit
    /\ PluginInit
    /\ HistoryInit
    /\ MigrationInit
    /\ PipelineInit
    /\ LimiterInit
    /\ ScanInit

HookSpec == Init /\ [][HookNext]_vars

CacheSpec == Init /\ [][CacheNext]_vars

SseSpec == Init /\ [][SseNext]_vars

ApiSpec == Init /\ [][ApiNext]_vars

WatchSpec == Init /\ [][WatchNext]_vars

RouterSpec == Init /\ [][RouterNext]_vars

IterSpec == Init /\ [][IterNext]_vars

SequentialSpec == Init /\ [][SequentialNext]_vars

PluginSpec == Init /\ [][PluginNext]_vars

HistorySpec == Init /\ [][HistoryNext]_vars

MigrationSpec == Init /\ [][MigrationNext]_vars

PipelineSpec == Init /\ [][PipelineNext]_vars

\* Watch mode with its scheduling: a timer that is set expires, and the promise of a
\* generate call that was made settles.
WatchLiveSpec ==
    /\ WatchSpec
    /\ WF_vars(\E read \in ReadOutcomes : WatchExpire(read))
    /\ WF_vars(\E outcome \in GenerateOutcomes : WatchSettle(outcome))

PluginLifecycleSpec == Init /\ [][PluginLifecycleNext]_vars

LimiterSpec == Init /\ [][LimiterNext]_vars

ScanSpec == Init /\ [][ScanNext]_vars

====
